---- MODULE Spec2Model ----
(***************************************************************************)
(* A model of the asynchronous browsing and transfer engine of             *)
(* multipane_explorer.py: the directory listing worker and the pane that   *)
(* consumes it, the recursive search worker, and the copy/move worker.     *)
(* Worker threads are processes whose steps interleave with the handlers   *)
(* of the GUI thread; signals emitted by a worker are events appended to   *)
(* the GUI thread's queue and handled there in order.                      *)
(***************************************************************************)
EXTENDS Integers, Sequences, FiniteSets, TLC

VARIABLES
    tree,            \* the directory tree read by listing and search: path -> kind
    workers,         \* DirEnumWorker instances: id -> fields and position
    enum_worker,     \* ExplorerPane._enum_worker: id of the current worker, 0 for None
    events,          \* the GUI thread's queue of signals not yet handled
    fast_model,      \* FastDirModel: [root, rows]
    fast_enum_done,  \* ExplorerPane._fast_enum_done
    fast_enum_count, \* ExplorerPane._fast_enum_count
    fast_enum_root,  \* ExplorerPane._fast_enum_root
    status_msgs,     \* number of "List error" messages shown in the status bar
    sw,              \* the SearchWorker: its fields, position and emitted signals
    fs,              \* the file system copy and move work on: path -> [kind, data]
    fs0,             \* the file system when the transfer request was submitted
    fw,              \* the FileOpWorker: its fields, position and emitted signals
    ui,              \* what the pane did with the request and showed to the user
    uq,              \* the calls of unique_dest_path made so far
    sortp,           \* an FsSortProxy: its source model, sort order and row order
    fw_left,         \* FileOpWorkers replaced as ExplorerPane._file_worker while running
    spane,           \* the pane's searches: its SearchWorkers, result model and queued signals
    statp,           \* the pane's StatOverlayProxy, its NormalStatWorkers and queued signals
    fstat            \* the pane's FastStatWorker and its queued signals

listingVars == <<workers, enum_worker, events, fast_model, fast_enum_done,
                 fast_enum_count, fast_enum_root, status_msgs>>

transferVars == <<fs, fs0, fw, ui>>

\* what the listing, the search and the steps of a transfer leave alone
restVars == <<uq, sortp, fw_left, spane, statp, fstat>>

\* what the calls of unique_dest_path leave alone
paneVars == <<tree, listingVars, sw>>

vars == <<tree, listingVars, sw, transferVars, restVars>>

----------------------------------------------------------------------------
(* Bounds of the model *)

\* deepest path of the directory tree
MaxDepth == 2
\* number of directory changes (listing workers started) in one behaviour
MaxListings == 2
\* largest result cap (max_results) a search is started with
MaxCap == 4
\* largest number of sources of a transfer request
MaxSrcs == 2
\* length, in chunks of 1 MiB, of the largest file a transfer reads
MaxChunks == 2
\* number of calls of unique_dest_path in one behaviour
MaxCalls == 3
\* number of request_paths calls, NormalStatWorkers and cache clears of a
\* StatOverlayProxy in one behaviour
MaxRequests == 3
MaxStatWorkers == 3
MaxClears == 1
\* number of FastStatWorkers of a pane in one behaviour
MaxFastStats == 3
\* batch_limit of request_paths (256 in the source, scaled down)
STAT_BATCH_LIMIT == 1
\* number of searches started on a pane in one behaviour
MaxSearches == 2
\* SEARCH_RESULT_LIMIT (50000 in the source, scaled down)
SEARCH_RESULT_LIMIT == 3
\* number of transfer requests made to a pane in one behaviour
MaxSubmits == 3
\* largest rank of a value in a sorted column
MaxKey == 1

----------------------------------------------------------------------------
(* Names, paths and the directory tree *)

\* File names are sequences of characters.
nTxt == <<"a", ".", "t">>
nTXT == <<"B", ".", "T">>
nLog == <<"c", ".", "l">>
nSub == <<"s">>

\* The order in which os.scandir yields the names of a directory.
NameOrder == <<nTxt, nTXT, nLog, nSub>>
Names == {NameOrder[i] : i \in 1..Len(NameOrder)}

RECURSIVE PathsOfLen(_)
PathsOfLen(k) ==
    IF k = 0 THEN {<<>>}
    ELSE {Append(p, n) : p \in PathsOfLen(k - 1), n \in Names}

Paths == UNION {PathsOfLen(k) : k \in 0..MaxDepth}

\* "size": None, "mtime": None of a row that has not been stat-ed
None == -1

\* FastDirModel._root == "" before the first listing
NoRoot == <<<<"">>>>

KindOf(p) == IF p \in DOMAIN tree THEN tree[p] ELSE "none"

\* os.path.join(root, name)
Join(root, name) == Append(root, name)

\* os.path.dirname
Parent(p) == IF Len(p) = 0 THEN p ELSE SubSeq(p, 1, Len(p) - 1)

\* os.path.basename
Base(p) == p[Len(p)]

\* a is b or an ancestor of b
IsPrefix(a, b) == Len(a) <= Len(b) /\ SubSeq(b, 1, Len(a)) = a

\* Every symbolic link of the modelled trees points to the tree's root.
LinkTarget == <<>>

\* The directory a path names once the links on it are followed.
RECURSIVE RealPath(_)
RealPath(p) ==
    IF Len(p) = 0 THEN p
    ELSE LET q == Join(RealPath(Parent(p)), Base(p))
         IN  IF KindOf(q) = "link" THEN LinkTarget ELSE q

\* The kind of a path's last component itself (lstat: a link is a link).
LKind(p) == IF Len(p) = 0 THEN KindOf(p) ELSE KindOf(Join(RealPath(Parent(p)), Base(p)))

\* os.scandir(p): whether the directory can be opened ("xdir" cannot be read)
CanScan(p) == KindOf(RealPath(p)) = "dir"

\* os.scandir(p): the names it yields, each once
Entries(p) ==
    SelectSeq(NameOrder, LAMBDA n : KindOf(Join(RealPath(p), n)) # "none")

\* DirEntry.is_dir(follow_symlinks=False)
IsDirNoFollow(p) == LKind(p) \in {"dir", "xdir"}

\* DirEntry.is_symlink()
IsSymlink(p) == LKind(p) = "link"

----------------------------------------------------------------------------
(* DirEnumWorker *)

\* BATCH of DirEnumWorker.run (400 in the source, scaled down)
BATCH_enum == 2

EnumIds == 1..MaxListings

\* The row DirEnumWorker.run builds for one directory entry.
EnumRow(root, name) ==
    [name   |-> name,
     path   |-> Join(root, name),
     is_dir |-> IsDirNoFollow(Join(root, name)),
     size   |-> None,
     mtime  |-> None]

\* A worker that was not created yet.
NoWorker == [root |-> NoRoot, cancel |-> FALSE, pc |-> "none", pos |-> 0,
             batch |-> <<>>, sigs |-> <<>>, saw_cancel |-> FALSE]

\* DirEnumWorker.__init__ followed by start()
NewEnumWorker(root) ==
    [root |-> root, cancel |-> FALSE, pc |-> "open", pos |-> 0,
     batch |-> <<>>, sigs |-> <<>>, saw_cancel |-> FALSE]

Sig(kind, rows) == [sig |-> kind, rows |-> rows]

\* The worker emits a signal: it is recorded in the worker's own history.
Emit(wr, kind, rows) == [wr EXCEPT !.sigs = Append(@, Sig(kind, rows))]

\* "if len(batch)>=BATCH: self.batchReady.emit(batch); batch=[]"
EnumBatchFull(batch) == Len(batch) >= BATCH_enum

\* One step of DirEnumWorker.run, as a function of the worker's fields.
\*   open : os.scandir(self.root), which raises for a directory that cannot be read
\*   iter : one turn of "for entry in it"
\*   flush: "if batch: self.batchReady.emit(batch)"
\*   fin  : "finally: self.finished.emit()"
\* A listing that fails without a word when its root cannot be opened.
EnumAfterOpen_silent(wr) ==
    IF CanScan(wr.root)
    THEN [wr EXCEPT !.pc = "iter"]
    ELSE [wr EXCEPT !.pc = "fin"]

EnumAfterOpen(wr) ==
    IF CanScan(wr.root)
    THEN [wr EXCEPT !.pc = "iter"]
    ELSE [Emit(wr, "error", <<>>) EXCEPT !.pc = "fin"]

EnumAfterIter(wr) ==
    IF wr.pos >= Len(Entries(wr.root))
    THEN [wr EXCEPT !.pc = "flush"]
    ELSE IF wr.cancel
    THEN [wr EXCEPT !.pc = "flush", !.saw_cancel = TRUE]
    ELSE LET row   == EnumRow(wr.root, Entries(wr.root)[wr.pos + 1])
             batch == Append(wr.batch, row)
         IN  IF EnumBatchFull(batch)
             THEN [Emit(wr, "batch", batch) EXCEPT !.pos = @ + 1, !.batch = <<>>]
             ELSE [wr EXCEPT !.pos = @ + 1, !.batch = batch]

\* A listing that drops the last, partly filled batch.
EnumAfterFlush_lost(wr) == [wr EXCEPT !.pc = "fin", !.batch = <<>>]

EnumAfterFlush(wr) ==
    IF wr.batch # <<>>
    THEN [Emit(wr, "batch", wr.batch) EXCEPT !.pc = "fin", !.batch = <<>>]
    ELSE [wr EXCEPT !.pc = "fin"]

EnumAfterFin(wr) == [Emit(wr, "finished", <<>>) EXCEPT !.pc = "done"]

EnumAfter(wr) ==
    CASE wr.pc = "open"  -> EnumAfterOpen(wr)
      [] wr.pc = "iter"  -> EnumAfterIter(wr)
      [] wr.pc = "flush" -> EnumAfterFlush(wr)
      [] wr.pc = "fin"   -> EnumAfterFin(wr)
      [] OTHER           -> wr

\* QThread.isRunning()
EnumRunning(wr) == wr.pc \in {"open", "iter", "flush", "fin"}

\* The worker's remaining run, when it reaches its end during QThread.wait().
RECURSIVE EnumRunToEnd(_)
EnumRunToEnd(wr) == IF EnumRunning(wr) THEN EnumRunToEnd(EnumAfter(wr)) ELSE wr

\* The signals a step added, as events for the GUI thread (queued connections:
\* the receivers live in the GUI thread, the emitter runs in the worker thread).
NewEvents(w, before, after) ==
    [i \in 1..(Len(after.sigs) - Len(before.sigs)) |->
        [w |-> w, sig |-> after.sigs[Len(before.sigs) + i].sig,
         rows |-> after.sigs[Len(before.sigs) + i].rows]]

\* A step of worker w's thread.
EnumStep(w) ==
    /\ EnumRunning(workers[w])
    /\ LET after == EnumAfter(workers[w])
       IN  /\ workers' = [workers EXCEPT ![w] = after]
           /\ events' = events \o NewEvents(w, workers[w], after)
    /\ UNCHANGED <<transferVars, tree, restVars, enum_worker, fast_model, fast_enum_done,
                   fast_enum_count, fast_enum_root, status_msgs, sw>>

----------------------------------------------------------------------------
(* FastDirModel and ExplorerPane: directory changes and signal handlers *)

\* FastDirModel.reset_dir
reset_dir(path) == [root |-> path, rows |-> <<>>]

\* FastDirModel.append_rows
append_rows(model, rows) ==
    IF rows = <<>> THEN model ELSE [model EXCEPT !.rows = @ \o rows]

\* ExplorerPane._stop_worker_thread(w, wait_ms): cancel() and a bounded wait().
\* stopped = TRUE: the thread ended within the wait; FALSE: the wait timed out
\* and the thread runs on with its cancel flag set.  The result is the worker
\* after the call; the signals it emitted meanwhile are in its history.
stop_worker_thread(wr, stopped) ==
    IF ~EnumRunning(wr) THEN wr
    ELSE IF stopped THEN EnumRunToEnd([wr EXCEPT !.cancel = TRUE])
    ELSE [wr EXCEPT !.cancel = TRUE]

\* ExplorerPane.set_path(path) -> _use_fast_model(path): stop the previous
\* listing worker, reset the model to the new root, start a new worker.
set_path(path, stopped) ==
    /\ path \in Paths
    /\ KindOf(path) \in {"dir", "xdir"}
    /\ \E w \in EnumIds :
        /\ workers[w].pc = "none"
        /\ \A v \in EnumIds : v < w => workers[v].pc # "none"
        /\ LET old     == enum_worker
               stopOld == old # 0 /\ EnumRunning(workers[old])
               after   == IF old = 0 THEN NoWorker
                          ELSE stop_worker_thread(workers[old], stopped)
           IN  /\ stopOld \/ stopped
               /\ workers' = [v \in EnumIds |->
                                IF v = w THEN NewEnumWorker(path)
                                ELSE IF v = old THEN after
                                ELSE workers[v]]
               /\ events' = IF old = 0 THEN events
                            ELSE events \o NewEvents(old, workers[old], after)
        /\ enum_worker' = w
    /\ fast_model' = reset_dir(path)
    /\ fast_enum_count' = 0
    /\ fast_enum_root' = path
    /\ fast_enum_done' = FALSE
    /\ UNCHANGED <<transferVars, tree, restVars, status_msgs, sw>>

\* _on_batch(rows), connected to every worker's batchReady
on_batch(rows) ==
    /\ fast_model' = append_rows(fast_model, rows)
    /\ fast_enum_count' = fast_enum_count + Len(rows)
    /\ UNCHANGED <<fast_enum_done, fast_enum_root, status_msgs>>

\* _on_finished(), connected to every worker's finished
on_finished ==
    /\ fast_enum_done' = TRUE
    /\ UNCHANGED <<fast_model, fast_enum_count, fast_enum_root, status_msgs>>

\* the lambda connected to every worker's error
on_list_error ==
    /\ status_msgs' = status_msgs + 1
    /\ UNCHANGED <<fast_model, fast_enum_done, fast_enum_count, fast_enum_root>>

\* The GUI thread handles the next queued signal.
Deliver ==
    /\ events # <<>>
    /\ events' = Tail(events)
    /\ CASE Head(events).sig = "batch"    -> on_batch(Head(events).rows)
         [] Head(events).sig = "finished" -> on_finished
         [] Head(events).sig = "error"    -> on_list_error
    /\ UNCHANGED <<transferVars, tree, restVars, workers, enum_worker, sw>>

----------------------------------------------------------------------------
(* SearchWorker *)

\* BATCH of SearchWorker.run (600 in the source, scaled down)
BATCH_search == 2

\* str.lower() on the characters of the modelled names and patterns
Lower(c) ==
    CASE c = "A" -> "a" [] c = "B" -> "b" [] c = "C" -> "c"
      [] c = "L" -> "l" [] c = "S" -> "s" [] c = "T" -> "t"
      [] OTHER -> c

LowerStr(str) == [i \in 1..Len(str) |-> Lower(str[i])]

\* the separators of a pattern string: "," and ";" are replaced by " ", then split()
IsSeparator(c) == c \in {" ", ",", ";"}

\* (pattern_str or "").replace(",", " ").replace(";", " ").split():
\* the maximal runs of characters that are not separators.
\* cur is the token being read, str the rest of the string.
RECURSIVE SplitFrom(_, _)
SplitFrom(str, cur) ==
    IF str = <<>> THEN (IF cur = <<>> THEN <<>> ELSE <<cur>>)
    ELSE IF IsSeparator(Head(str))
         THEN (IF cur = <<>> THEN <<>> ELSE <<cur>>) \o SplitFrom(Tail(str), <<>>)
         ELSE SplitFrom(Tail(str), Append(cur, Head(str)))

Split(str) == SplitFrom(str, <<>>)

\* self._patterns = [p.lower() for p in raw] if raw else ["*"]
PatternsOf(pattern_str) ==
    LET raw == Split(pattern_str)
    IN  IF raw # <<>> THEN [i \in 1..Len(raw) |-> LowerStr(raw[i])] ELSE << <<"*">> >>

\* fnmatch.fnmatchcase(name, pat) for patterns made of "*", "?" and literals
RECURSIVE fnmatchcase(_, _)
fnmatchcase(name, pat) ==
    IF pat = <<>> THEN name = <<>>
    ELSE IF Head(pat) = "*"
         THEN fnmatchcase(name, Tail(pat))
              \/ (name # <<>> /\ fnmatchcase(Tail(name), pat))
         ELSE /\ name # <<>>
              /\ (Head(pat) = "?" \/ Head(pat) = Head(name))
              /\ fnmatchcase(Tail(name), Tail(pat))

Contains(str, c) == \E i \in 1..Len(str) : str[i] = c

\* simple_ext: p.startswith("*.") and no "*" in p[2:] and none of "?", "[", "]" in p
simple_ext(p) ==
    /\ Len(p) >= 2 /\ p[1] = "*" /\ p[2] = "."
    /\ ~Contains(SubSeq(p, 3, Len(p)), "*")
    /\ ~Contains(p, "?") /\ ~Contains(p, "[") /\ ~Contains(p, "]")

\* str.endswith
endswith(name, ext) ==
    /\ Len(ext) <= Len(name)
    /\ SubSeq(name, Len(name) - Len(ext) + 1, Len(name)) = ext

\* The test SearchWorker.__init__ builds for one pattern.
PatternTest(p, name_lower) ==
    IF simple_ext(p) THEN endswith(name_lower, Tail(p))
    ELSE fnmatchcase(name_lower, p)

\* SearchWorker._match
Match(patterns, name_lower) ==
    \E i \in 1..Len(patterns) : PatternTest(patterns[i], name_lower)

\* os.path.relpath(d, base), with "." turned into ""
RelFolder(d, base) == SubSeq(d, Len(base) + 1, Len(d))

\* The result SearchWorker.run builds for a matching entry of directory d.
SearchResult(d, name, base) ==
    [name   |-> name,
     path   |-> Join(d, name),
     is_dir |-> IsDirNoFollow(Join(d, name)),
     folder |-> RelFolder(d, base)]

NoSearch ==
    [base |-> NoRoot, patterns |-> <<>>, pattern_str |-> <<>>, max_results |-> 0,
     cancel |-> FALSE, matches |-> 0, truncated |-> FALSE, stack |-> <<>>,
     d |-> NoRoot, pos |-> 0, batch |-> <<>>, pc |-> "none",
     sigs |-> <<>>, cancel_called |-> FALSE, scanned |-> <<>>]

Max(a, b) == IF a >= b THEN a ELSE b

\* SearchWorker.__init__ followed by start(); the first lines of run()
NewSearchWorker(base, pattern_str, max_results) ==
    [NoSearch EXCEPT
        !.base = base, !.pattern_str = pattern_str,
        !.patterns = PatternsOf(pattern_str),
        !.max_results = Max(1, max_results),
        !.stack = <<base>>, !.pc = "pop"]

\* A search that lets the error of os.scandir reach the outer handler.
ScanFailed_raise(w, rest) ==
    [Emit(w, "error", <<>>) EXCEPT !.stack = rest, !.batch = <<>>, !.pc = "fin"]

\* os.scandir(d) raises: "except Exception: continue"
ScanFailed(w, rest) == [w EXCEPT !.stack = rest]

\* "while stack and not self._cancel: d = stack.pop()", then os.scandir(d):
\* a directory that cannot be opened is skipped ("except Exception: continue").
SearchAfterPop(w) ==
    IF w.stack = <<>> \/ w.cancel THEN [w EXCEPT !.pc = "flush"]
    ELSE LET d    == w.stack[Len(w.stack)]
             rest == SubSeq(w.stack, 1, Len(w.stack) - 1)
         IN  IF CanScan(d)
             THEN [w EXCEPT !.stack = rest, !.d = d, !.pos = 0, !.pc = "iter",
                            !.scanned = Append(@, d)]
             ELSE ScanFailed(w, rest)

\* A search that follows the links that lie in its base directory.
SearchDescend_follow(w, p) ==
    IF (IsDirNoFollow(p) /\ ~IsSymlink(p)) \/ (IsSymlink(p) /\ Parent(p) = w.base)
    THEN [w EXCEPT !.stack = Append(@, p)]
    ELSE w

\* "if is_dir: if entry.is_symlink(): continue; stack.append(entry.path)"
SearchDescend(w, p) ==
    IF IsDirNoFollow(p) /\ ~IsSymlink(p)
    THEN [w EXCEPT !.stack = Append(@, p)]
    ELSE w

\* "if len(batch) >= BATCH: self.batchReady.emit(base, batch); batch = []"
SearchAddResult(w, res) ==
    LET batch == Append(w.batch, res)
    IN  IF Len(batch) >= BATCH_search
        THEN [Emit(w, "batch", batch) EXCEPT !.batch = <<>>, !.matches = @ + 1]
        ELSE [w EXCEPT !.batch = batch, !.matches = @ + 1]

\* A cap that lets one match too many through.
CapReached_late(w) == w.matches > w.max_results

\* "if self._matches >= self._max_results": the cap stops the search at one more match
CapReached(w) == w.matches >= w.max_results

\* A search that compares the entry's name as it is spelled.
EntryNameLower_asis(name) == name

\* "name_l = entry.name.lower()"
EntryNameLower(name) == LowerStr(name)

\* One turn of "for entry in it".
SearchAfterIter(w) ==
    IF w.pos >= Len(Entries(w.d)) THEN [w EXCEPT !.pc = "pop"]
    ELSE IF w.cancel THEN [w EXCEPT !.pc = "pop"]
    ELSE LET name == Entries(w.d)[w.pos + 1]
             p    == Join(w.d, name)
             next == [w EXCEPT !.pos = @ + 1]
         IN  IF Match(w.patterns, EntryNameLower(name))
             THEN IF CapReached(w)
                  THEN [w EXCEPT !.truncated = TRUE, !.cancel = TRUE, !.pc = "pop"]
                  ELSE SearchDescend(SearchAddResult(next, SearchResult(w.d, name, w.base)), p)
             ELSE SearchDescend(next, p)

\* "if batch: self.batchReady.emit(base, batch)"
SearchAfterFlush(w) ==
    IF w.batch # <<>>
    THEN [Emit(w, "batch", w.batch) EXCEPT !.batch = <<>>, !.pc = "trunc"]
    ELSE [w EXCEPT !.pc = "trunc"]

\* A search that reports the cap after its completion signal.
SearchAfterTrunc_last(w) ==
    IF w.truncated
    THEN [Emit(Emit(w, "finished", <<>>), "truncated", <<w.matches>>) EXCEPT !.pc = "done"]
    ELSE [w EXCEPT !.pc = "fin"]

\* "if self._truncated: self.truncated.emit(self._matches)"
SearchAfterTrunc(w) ==
    IF w.truncated
    THEN [Emit(w, "truncated", <<w.matches>>) EXCEPT !.pc = "fin"]
    ELSE [w EXCEPT !.pc = "fin"]

\* "finally: self.finished.emit()"
SearchAfterFin(w) == [Emit(w, "finished", <<>>) EXCEPT !.pc = "done"]

SearchAfter(w) ==
    CASE w.pc = "pop"   -> SearchAfterPop(w)
      [] w.pc = "iter"  -> SearchAfterIter(w)
      [] w.pc = "flush" -> SearchAfterFlush(w)
      [] w.pc = "trunc" -> SearchAfterTrunc(w)
      [] w.pc = "fin"   -> SearchAfterFin(w)
      [] OTHER          -> w

SearchRunning(w) == w.pc \in {"pop", "iter", "flush", "trunc", "fin"}

\* A step of the search thread.
SearchStep ==
    /\ SearchRunning(sw)
    /\ sw' = SearchAfter(sw)
    /\ UNCHANGED <<transferVars, tree, restVars, listingVars>>

\* SearchWorker.cancel(), called by the pane while the thread runs
SearchCancel ==
    /\ SearchRunning(sw)
    /\ ~sw.cancel_called
    /\ sw' = [sw EXCEPT !.cancel = TRUE, !.cancel_called = TRUE]
    /\ UNCHANGED <<transferVars, tree, restVars, listingVars>>

\* ExplorerPane._apply_filter: a search of the current directory with the
\* text of the filter box, which is stripped and not empty.
StartSearch(base, pattern_str, max_results) ==
    /\ sw.pc = "none"
    /\ base \in Paths /\ KindOf(base) \in {"dir", "xdir"}
    /\ pattern_str # <<>>
    /\ pattern_str[1] # " " /\ pattern_str[Len(pattern_str)] # " "
    /\ sw' = NewSearchWorker(base, pattern_str, max_results)
    /\ UNCHANGED <<transferVars, tree, restVars, listingVars>>

----------------------------------------------------------------------------
(* The file system of copy and move *)

\* Files hold their content as a sequence of chunks of 1 MiB, the unit in
\* which _copy_file reads and writes; sizes are counted in chunks.
Dir == [kind |-> "dir", data |-> <<>>]
File(data) == [kind |-> "file", data |-> data]

\* os.path.exists
exists(f, p) == p \in DOMAIN f

\* os.path.isdir(p) and not os.path.islink(p): the trees hold no links
isdir(f, p) == exists(f, p) /\ f[p].kind = "dir"

\* os.path.getsize, 0 where it raises
getsize(f, p) == IF exists(f, p) THEN Len(f[p].data) ELSE 0

\* p and everything below it
Under(f, p) == {q \in DOMAIN f : IsPrefix(p, q)}

\* F of the value of e: a local variable, assigned once
Bind(e, F(_)) == CHOOSE r \in {F(v) : v \in {e}} : TRUE

RECURSIVE SeqOfSet(_)
SeqOfSet(set) ==
    Bind(set, LAMBDA S :
        IF S = {} THEN <<>>
        ELSE Bind(CHOOSE y \in S : TRUE, LAMBDA x : <<x>> \o SeqOfSet(S \ {x})))

\* The entries of directory p, in the order the directory yields them.
listdir(f, p) == SeqOfSet({q \in DOMAIN f : Len(q) = Len(p) + 1 /\ IsPrefix(p, q)})

\* os.walk(p), top-down: the directories it visits, in order; nothing when
\* p is not a directory.
RECURSIVE walk_dirs(_, _)
walk_dirs(f, stack) ==
    Bind(stack, LAMBDA todo :
        IF todo = <<>> THEN <<>>
        ELSE LET r == Head(todo)
                 subs == SelectSeq(listdir(f, r), LAMBDA q : isdir(f, q))
             IN  <<r>> \o walk_dirs(f, subs \o Tail(todo)))

RECURSIVE Concat(_)
Concat(ss) == IF ss = <<>> THEN <<>> ELSE Head(ss) \o Concat(Tail(ss))

\* the files of directory r itself
files_in(f, r) == SelectSeq(listdir(f, r), LAMBDA q : ~isdir(f, q))

\* FileOpWorker._iter_files(path): the files os.walk finds below a directory,
\* or the path itself
_iter_files(f, path) ==
    IF isdir(f, path)
    THEN Bind(walk_dirs(f, <<path>>), LAMBDA ds :
             Concat([i \in 1..Len(ds) |-> files_in(f, ds[i])]))
    ELSE <<path>>

RECURSIVE SumSizes(_, _)
SumSizes(f, ps) == IF ps = <<>> THEN 0 ELSE getsize(f, Head(ps)) + SumSizes(f, Tail(ps))

\* FileOpWorker._size_of
_size_of(f, path) == SumSizes(f, _iter_files(f, path))

\* shutil.rmtree(p) of a directory, os.remove(p) of a file
rmtree(f, p) == [q \in DOMAIN f \ Under(f, p) |-> f[q]]
remove(f, p) == [q \in DOMAIN f \ {p} |-> f[q]]

\* os.makedirs(p, exist_ok=True) raises when p or an ancestor is a file
Ancestors(p) == {SubSeq(p, 1, k) : k \in 0..Len(p)}
makedirs_raises(f, p) == \E q \in Ancestors(p) : exists(f, q) /\ ~isdir(f, q)
makedirs(f, p) ==
    [q \in DOMAIN f \cup Ancestors(p) |-> IF q \in DOMAIN f THEN f[q] ELSE Dir]

\* open(p, "wb"): the file is created or truncated
open_wb(f, p) == [q \in DOMAIN f \cup {p} |-> IF q = p THEN File(<<>>) ELSE f[q]]

\* fdst.write(buf)
write(f, p, buf) == [f EXCEPT ![p] = File(Append(f[p].data, buf))]

\* os.rename(src, dst): src and everything below it gets its new path
Renamed(src, dst, q) == dst \o SubSeq(q, Len(src) + 1, Len(q))
rename(f, src, dst) ==
    LET moved == Under(f, src)
        kept == DOMAIN f \ moved
    IN  [q \in kept \cup {Renamed(src, dst, m) : m \in moved} |->
            IF q \in kept THEN f[q]
            ELSE f[CHOOSE m \in moved : Renamed(src, dst, m) = q]]

\* shutil.move(src, dst): into dst when dst is a directory. It raises when
\* the source is gone, when the target exists, and when the system refuses
\* (os_error: a locked file, a missing permission).
move_target(f, src, dst) == IF isdir(f, dst) THEN Join(dst, Base(src)) ELSE dst
move_raises(f, src, dst, os_error) ==
    \/ os_error
    \/ ~exists(f, src)
    \/ exists(f, move_target(f, src, dst))
    \/ ~isdir(f, Parent(move_target(f, src, dst)))

\* _path_key: the path is absolute and normalised already; normcase lowers it
_path_key(p) == [i \in 1..Len(p) |-> LowerStr(p[i])]

\* os.path.samefile: without links, the same path
samefile(a, b) == a = b

\* _paths_same: samefile raises when one of the paths does not exist
_paths_same_never(f, a, b) == FALSE

_paths_same(f, a, b) ==
    IF exists(f, a) /\ exists(f, b) THEN samefile(a, b)
    ELSE _path_key(a) = _path_key(b)

\* _is_subpath(child, parent): commonpath of the keys is the parent's key
_is_subpath_never(child, parent) == FALSE

_is_subpath(child, parent) == IsPrefix(_path_key(parent), _path_key(child))

\* os.path.splitext(name): the extension starts at the last dot that has a
\* character other than a dot before it
ExtStart(name) ==
    LET dots == {i \in 1..Len(name) :
                    name[i] = "." /\ \E j \in 1..(i - 1) : name[j] # "."}
    IN  IF dots = {} THEN Len(name) + 1
        ELSE CHOOSE i \in dots : \A j \in dots : j <= i
splitext(name) ==
    <<SubSeq(name, 1, ExtStart(name) - 1), SubSeq(name, ExtStart(name), Len(name))>>

\* " - Copy" if i == 1 else f" - Copy ({i})"
CopySuffix(i) == IF i = 1 THEN <<" - Copy">> ELSE <<" - Copy (", ToString(i), ")">>

\* unique_dest_path(dst_dir, name)
unique_candidate_once(f, dst_dir, name, candidate, i) ==
    IF exists(f, Join(dst_dir, candidate))
    THEN splitext(name)[1] \o CopySuffix(i) \o splitext(name)[2]
    ELSE candidate

RECURSIVE unique_candidate(_, _, _, _, _)
unique_candidate(f, dst_dir, name, candidate, i) ==
    IF exists(f, Join(dst_dir, candidate))
    THEN unique_candidate(f, dst_dir, name,
             splitext(name)[1] \o CopySuffix(i) \o splitext(name)[2], i + 1)
    ELSE candidate

\* A keep-both name that is the name itself.
unique_dest_path_asis(f, dst_dir, name) == Join(dst_dir, name)

unique_dest_path(f, dst_dir, name) ==
    Join(dst_dir, unique_candidate(f, dst_dir, name, name, 1))

----------------------------------------------------------------------------
(* FileOpWorker *)

\* FILEOP_SIZE_SCAN_FILE_LIMIT (6000 in the source, scaled down)
FILEOP_SIZE_SCAN_FILE_LIMIT == 3

\* A signal of the worker: progress(pct), status(msg), finished_ok(), error(msg)
FSig(kind, pct, msg) == [sig |-> kind, pct |-> pct, msg |-> msg]
EmitF(w, kind, pct, msg) == [w EXCEPT !.sigs = Append(@, FSig(kind, pct, msg))]

Min(a, b) == IF a <= b THEN a ELSE b

\* No worker: ExplorerPane._file_worker is None.
NoFileOp ==
    [op |-> "", srcs |-> <<>>, dst_dir |-> <<>>, conflict_map |-> <<>>,
     cancel |-> FALSE, total |-> 0, done |-> 0, count_progress |-> FALSE,
     last_pct |-> -1, cache |-> <<>>,
     pc |-> "none", i |-> 0, calc_total |-> 0, scanned |-> 0,
     walk |-> <<>>, files |-> <<>>, cur |-> <<>>, off |-> 0,
     cp_src |-> <<>>, cp_dst |-> <<>>, then |-> "",
     sigs |-> <<>>, read_cancel |-> FALSE, raised |-> FALSE]

\* FileOpWorker.__init__ and start(): run() begins in _calc_total
NewFileOpWorker(op, srcs, dst_dir, conflict_map) ==
    [NoFileOp EXCEPT !.op = op, !.srcs = srcs, !.dst_dir = dst_dir,
                     !.conflict_map = conflict_map, !.pc = "calc", !.i = 1]

FileOpRunning(w) == w.pc \in {"calc", "loop", "walk", "file", "chunk", "del", "end"}

\* The worker and the file system after a step of run().
St(w, f) == [w |-> w, f |-> f]

\* A percent that is not capped at 100.
_emit_progress_uncapped(self, force) ==
    Bind(self, LAMBDA w :
        Bind((w.done * 100) \div Max(1, w.total), LAMBDA pct :
            IF force \/ pct >= 100 \/ w.last_pct < 0 \/ pct > w.last_pct
            THEN [EmitF(w, "progress", pct, "") EXCEPT !.last_pct = pct]
            ELSE w))

\* A percent that is emitted whenever it is computed.
_emit_progress_always(self, force) ==
    Bind(self, LAMBDA w :
        Bind(Min(100, (w.done * 100) \div Max(1, w.total)), LAMBDA pct :
            [EmitF(w, "progress", pct, "") EXCEPT !.last_pct = pct]))

\* _emit_progress(force). The percent is an integer, so pct > last already
\* means a difference of at least 1 and the elapsed time decides nothing.
_emit_progress(self, force) ==
    Bind(self, LAMBDA w :
        Bind(Min(100, (w.done * 100) \div Max(1, w.total)), LAMBDA pct :
            LET should_emit ==
                    \/ force
                    \/ pct >= 100
                    \/ w.last_pct < 0
                    \/ (pct > w.last_pct /\ (pct - w.last_pct) >= 1)
            IN  IF should_emit
                THEN [EmitF(w, "progress", pct, "") EXCEPT !.last_pct = pct]
                ELSE w))

\* _tick_progress(delta_bytes)
_tick_progress(w, delta_bytes) ==
    IF w.count_progress THEN w
    ELSE Bind(delta_bytes, LAMBDA delta :
             _emit_progress([w EXCEPT !.done = @ + Max(0, delta)], FALSE))

\* _tick_count_unit(1)
_tick_count_unit(w) ==
    IF ~w.count_progress THEN w
    ELSE _emit_progress([w EXCEPT !.done = @ + 1], FALSE)

\* A skip that leaves the progress where it is.
_skip_source_progress_none(w, f, src) == w

\* _skip_source_progress(src)
_skip_source_progress(w, f, src) ==
    IF w.count_progress THEN w
    ELSE _tick_progress(w, IF _path_key(src) \in DOMAIN w.cache
                           THEN w.cache[_path_key(src)]
                           ELSE _size_of(f, src))

\* A source that, once done, raises the total to the units counted so far.
_emit_source_done_grow(w) ==
    IF w.count_progress
    THEN _emit_progress([w EXCEPT !.done = @ + 1, !.total = Max(@, w.done + 1)], FALSE)
    ELSE _emit_progress(w, FALSE)

\* _emit_source_done()
_emit_source_done(w) ==
    IF w.count_progress
    THEN _emit_progress([w EXCEPT !.done = @ + 1], FALSE)
    ELSE _emit_progress(w, FALSE)

\* except Exception as e: self.error.emit(str(e))
Raise(w, f) ==
    St([EmitF(w, "error", 0, "exception") EXCEPT !.pc = "done", !.raised = TRUE], f)

\* if self._cancel: self.error.emit("Operation cancelled."); return
Cancelled(w) == [EmitF(w, "error", 0, "Operation cancelled.") EXCEPT !.pc = "done"]

\* self._done = max(self._done, self._total)
FinalDone_asis(w) == w.done

FinalDone(w) == Max(w.done, w.total)

\* the end of run() when the flag is not set
Finish(w) ==
    [EmitF(_emit_progress([w EXCEPT !.done = FinalDone(w)], TRUE),
           "finished_ok", 0, "")
     EXCEPT !.pc = "done"]

\* The for loop goes to its next source, or ends and run() reads the flag.
NextSource(self) ==
    Bind(self, LAMBDA w :
        [w EXCEPT !.i = @ + 1, !.pc = IF w.i < Len(w.srcs) THEN "loop" ELSE "end",
                  !.walk = <<>>, !.files = <<>>, !.cur = <<>>, !.off = 0,
                  !.cp_src = <<>>, !.cp_dst = <<>>, !.then = ""])

\* self._emit_source_done() and the next iteration
SourceDone(w) == NextSource(_emit_source_done(w))

\* The flag was read set inside a copy routine or before the removal of the
\* source: the routine returns, run() counts the source, and every later
\* read of the flag finds it set: the loop breaks and the run is cancelled.
CancelExit(w) == Cancelled(_emit_source_done([w EXCEPT !.read_cancel = TRUE]))

\* The copy routine returned without having read the flag set.
AfterCopy(w) == IF w.then = "copy" THEN SourceDone(w) ELSE [w EXCEPT !.pc = "del"]

\* After a file, _copy_dir_recursive goes on with the next file, the next
\* directory of the walk, or returns.
AfterFile(self) ==
    Bind(self, LAMBDA w :
        IF w.files # <<>> THEN [w EXCEPT !.pc = "file"]
        ELSE IF w.walk # <<>> THEN [w EXCEPT !.pc = "walk"]
        ELSE AfterCopy(w))

\* _copy_file(src, dst) up to its first read of the flag
StartCopyFile(w, f, src, dst) ==
    IF makedirs_raises(f, Parent(dst)) THEN Raise(w, f)
    ELSE Bind(makedirs(f, Parent(dst)), LAMBDA f1 :
             IF ~exists(f1, src) \/ isdir(f1, src) \/ isdir(f1, dst)
             THEN Raise(w, f1)
             ELSE St([w EXCEPT !.pc = "chunk", !.cur = <<src, dst>>, !.off = 0],
                     open_wb(f1, dst)))

\* _copy_dir_recursive(src, dst) up to its first read of the flag
StartCopyDir(w, made, src, dst) ==
    Bind(made, LAMBDA f :
        IF isdir(f, src)
        THEN St([w EXCEPT !.pc = "walk", !.walk = <<src>>], f)
        ELSE St(AfterCopy(w), f))

\* The routine that runs for the source: what moves copy, and what follows.
Begin(w, src, dst, then) == [w EXCEPT !.cp_src = src, !.cp_dst = dst, !.then = then]

\* self.conflict_map.get(src) if exists else None
ActionFor(w, f, src, dst) ==
    IF exists(f, dst) /\ src \in DOMAIN w.conflict_map THEN w.conflict_map[src]
    ELSE "none"

\* "try: shutil.rmtree(dst) / os.remove(dst) / except Exception: pass": the
\* existing destination is removed unless the system refuses (rm_error)
\* or it is not of the kind the call removes (as_tree: shutil.rmtree)
RemoveDst(f, dst, as_tree, rm_error) ==
    IF rm_error \/ ~exists(f, dst) THEN f
    ELSE IF as_tree THEN (IF isdir(f, dst) THEN rmtree(f, dst) ELSE f)
    ELSE (IF isdir(f, dst) THEN f ELSE remove(f, dst))

\* run(), op == "copy": the source is copied to dst
CopySource(w, f, src, dst1, action, rm_error) ==
    Bind(IF exists(f, dst1) /\ action = "copy"
         THEN unique_dest_path(f, w.dst_dir, Base(src)) ELSE dst1, LAMBDA dst :
        IF isdir(f, src)
        THEN Bind(IF exists(f, dst1) /\ action = "overwrite"
                  THEN RemoveDst(f, dst1, TRUE, rm_error) ELSE f, LAMBDA f1 :
                 IF makedirs_raises(f1, dst) THEN Raise(w, f1)
                 ELSE StartCopyDir(Begin(w, src, dst, "copy"), makedirs(f1, dst),
                                   src, dst))
        ELSE StartCopyFile(Begin(w, src, dst, "copy"), f, src, dst))

\* run(), op == "move": shutil.move, and the copy that replaces it when it raises
MoveSource(w, f, src, dst1, action, os_error) ==
    LET keep_both == action = "copy"
        \* the move succeeded: the progress of the source, and the next source
        Moved(f2, final) ==
            Bind(IF _path_key(src) \in DOMAIN w.cache THEN w.cache[_path_key(src)]
                 ELSE _size_of(f2, IF exists(f2, final) THEN final ELSE src),
                 LAMBDA src_progress_size :
                     St(SourceDone(_tick_progress(w, src_progress_size)), f2))
        \* the move raised and the source is a directory
        FallbackDir(f1, dst) ==
            Bind(IF exists(f1, dst) /\ action = "overwrite"
                 THEN RemoveDst(f1, dst, TRUE, os_error = "remove") ELSE f1, LAMBDA f2 :
                Bind(IF exists(f2, dst) /\ action = "copy"
                     THEN unique_dest_path(f2, w.dst_dir, Base(src)) ELSE dst,
                     LAMBDA dst2 :
                         IF makedirs_raises(f2, dst2) THEN Raise(w, f2)
                         ELSE StartCopyDir(Begin(w, src, dst2, "del_dir"),
                                           makedirs(f2, dst2), src, dst2)))
        \* the move raised and the source is a file
        FallbackFile(f1, dst) ==
            Bind(IF exists(f1, dst) /\ action = "overwrite"
                 THEN RemoveDst(f1, dst, FALSE, os_error = "remove") ELSE f1, LAMBDA f2 :
                Bind(IF exists(f2, dst) /\ action = "copy"
                     THEN unique_dest_path(f2, w.dst_dir, Base(src)) ELSE dst,
                     LAMBDA dst2 :
                         StartCopyFile(Begin(w, src, dst2, "del_file"), f2, src, dst2)))
    IN  Bind(IF exists(f, dst1) /\ keep_both
             THEN unique_dest_path(f, w.dst_dir, Base(src)) ELSE dst1, LAMBDA dst :
            Bind(IF exists(f, dst1) /\ action = "overwrite"
                 THEN RemoveDst(f, dst1, isdir(f, dst1), os_error = "remove")
                 ELSE f, LAMBDA f1 :
                Bind(IF keep_both THEN dst ELSE w.dst_dir, LAMBDA target :
                    IF ~move_raises(f1, src, target, os_error = "move")
                    THEN Bind(move_target(f1, src, target), LAMBDA final :
                             Bind(rename(f1, src, final), LAMBDA f2 : Moved(f2, final)))
                    ELSE IF isdir(f1, src) THEN FallbackDir(f1, dst)
                    ELSE FallbackFile(f1, dst))))

\* One iteration of the for loop of run(), after it read the flag not set, up
\* to the next read of the flag.
LoopBody(w, f, os_error) ==
    LET src == w.srcs[w.i]
        base == Base(src)
        dst0 == Join(w.dst_dir, base)
        same == _paths_same(f, src, dst0)
    IN  Bind(IF same /\ w.op = "copy"
             THEN unique_dest_path(f, w.dst_dir, base) ELSE dst0, LAMBDA dst1 :
            Bind(ActionFor(w, f, src, dst1), LAMBDA action :
                IF ~exists(f, src) THEN St(SourceDone(w), f)
                ELSE IF same /\ w.op # "copy"
                THEN St(SourceDone(_skip_source_progress(
                            EmitF(w, "status", 0, "Skipped same path"), f, src)), f)
                ELSE IF isdir(f, src) /\ _is_subpath(dst1, src)
                THEN St(SourceDone(_skip_source_progress(
                            EmitF(w, "status", 0, "Skipped nested destination"),
                            f, src)), f)
                ELSE IF exists(f, dst1) /\ action = "skip"
                THEN St(SourceDone(_skip_source_progress(w, f, src)), f)
                ELSE IF w.op = "copy"
                THEN CopySource(w, f, src, dst1, action, os_error = "remove")
                ELSE MoveSource(w, f, src, dst1, action, os_error)))

\* _copy_dir_recursive: the next directory of os.walk, its target made
WalkStep(w, f) ==
    LET r == Head(w.walk)
        subs == SelectSeq(listdir(f, r), LAMBDA q : isdir(f, q))
        target_root == w.cp_dst \o SubSeq(r, Len(w.cp_src) + 1, Len(r))
        Pairs(fls) == [j \in 1..Len(fls) |->
                          <<fls[j], Join(target_root, Base(fls[j]))>>]
        w1 == [w EXCEPT !.walk = subs \o Tail(w.walk),
                        !.files = Bind(files_in(f, r), Pairs)]
    IN  IF ~isdir(f, r) THEN St(AfterFile([w EXCEPT !.walk = Tail(w.walk)]), f)
        ELSE IF makedirs_raises(f, target_root) THEN Raise(w, f)
        ELSE St(AfterFile(w1), makedirs(f, target_root))

\* _copy_dir_recursive: self._copy_file(sfile, dfile) of the next file
FileStep(w, f) ==
    StartCopyFile([w EXCEPT !.files = Tail(w.files)], f,
                  Head(w.files)[1], Head(w.files)[2])

\* _copy_file: one buffer read and written, or the end of the file
ChunkStep(w, f) ==
    LET src == w.cur[1]
        dst == w.cur[2]
    IN  IF w.off < getsize(f, src)
        THEN St(_tick_progress([w EXCEPT !.off = @ + 1], 1),
                write(f, dst, f[src].data[w.off + 1]))
        ELSE St(AfterFile(_tick_count_unit(w)), f)

\* shutil.rmtree(src) stands outside any try; os.remove(src) stands in
\* "try: ... except Exception: pass"
RemoveSrcRaises(then, rm_error) == rm_error /\ then = "del_dir"

\* if not self._cancel: shutil.rmtree(src) / os.remove(src); the system can
\* refuse the removal (rm_error)
DelStep(w, f, rm_error) ==
    LET f1 == IF rm_error THEN f
              ELSE IF w.then = "del_dir" THEN rmtree(f, w.cp_src)
              ELSE IF exists(f, w.cp_src) /\ ~isdir(f, w.cp_src) THEN remove(f, w.cp_src)
              ELSE f
    IN  IF w.then = "del_dir" /\ ~isdir(f, w.cp_src) THEN Raise(w, f)
        ELSE IF RemoveSrcRaises(w.then, rm_error) THEN Raise(w, f)
        ELSE St(SourceDone(w), f1)

\* self.status.emit("Preparing ..."), and the for loop of run() begins
CalcReturn(w) == [EmitF(w, "status", 0, "Preparing") EXCEPT !.pc = "loop", !.i = 1]

\* _calc_total: the scan ended within its budget (or was cancelled)
CalcBytes(w) ==
    CalcReturn([w EXCEPT !.count_progress = FALSE, !.total = Max(1, w.calc_total),
                         !.last_pct = -1])

\* _calc_total: the scan is too large or too slow, progress counts units
CalcCount(w, scanned) ==
    CalcReturn([w EXCEPT !.count_progress = TRUE,
                         !.total = Max(Max(1, scanned), Len(w.srcs)),
                         !.done = 0, !.scanned = scanned])

\* the paths whose sizes _calc_total adds up for source s
CalcItems(f, s) == IF isdir(f, s) THEN _iter_files(f, s) ELSE <<s>>

\* their sizes, in the order of the scan
CalcSizes(f, s) ==
    Bind(CalcItems(f, s), LAMBDA items :
        [j \in 1..Len(items) |-> getsize(f, items[j])])

RECURSIVE Sum(_)
Sum(ns) == IF ns = <<>> THEN 0 ELSE Head(ns) + Sum(Tail(ns))

\* _calc_total: the items of one source counted, up to the item at which the
\* scan gives up: the limit is reached, or the deadline passes at item `late`
CalcScanned(w, skey, sizes, late) ==
    LET n == Len(sizes)
        limit == Max(1, FILEOP_SIZE_SCAN_FILE_LIMIT - w.scanned)
        first == IF late \in 1..n THEN Min(late, limit) ELSE limit
        over == first <= n
        upto == IF over THEN first ELSE n
    IN  Bind(Sum(SubSeq(sizes, 1, upto)), LAMBDA src_total :
            Bind([w EXCEPT !.cache = [k \in DOMAIN w.cache \cup {skey} |->
                                         IF k = skey THEN src_total ELSE w.cache[k]],
                           !.calc_total = @ + src_total,
                           !.scanned = @ + upto], LAMBDA w1 :
                IF over THEN CalcCount(w1, w.scanned + upto)
                ELSE IF w.i < Len(w.srcs) THEN [w1 EXCEPT !.i = @ + 1]
                ELSE CalcBytes(w1)))

\* _calc_total: one source scanned after the flag was read not set. The
\* deadline passes at item `late` of the source (0: not during this source).
CalcSource(w, f, late) ==
    Bind(CalcSizes(f, w.srcs[w.i]), LAMBDA sizes :
        CalcScanned(w, _path_key(w.srcs[w.i]), sizes, late))

\* One step of run(): from a read of the cancel flag to the next one.
FileOpAfter(w, f, late, os_error) ==
    CASE w.pc = "calc" ->
            IF w.cancel THEN St(Cancelled(CalcBytes([w EXCEPT !.read_cancel = TRUE])), f)
            ELSE St(CalcSource(w, f, late), f)
      [] w.pc = "loop" ->
            IF w.cancel THEN St(Cancelled([w EXCEPT !.read_cancel = TRUE]), f)
            ELSE LoopBody(w, f, os_error)
      [] w.pc = "walk" -> IF w.cancel THEN St(CancelExit(w), f) ELSE WalkStep(w, f)
      [] w.pc = "file" -> IF w.cancel THEN St(CancelExit(w), f) ELSE FileStep(w, f)
      [] w.pc = "chunk" -> IF w.cancel THEN St(CancelExit(w), f) ELSE ChunkStep(w, f)
      [] w.pc = "del" -> IF w.cancel THEN St(CancelExit(w), f)
                         ELSE DelStep(w, f, os_error = "remove")
      [] w.pc = "end" -> IF w.cancel THEN St(Cancelled(w), f) ELSE St(Finish(w), f)

\* where the deadline of the size scan can pass in this step
LateChoices(w, f) ==
    IF w.pc = "calc" /\ ~w.cancel THEN 0..Len(CalcItems(f, w.srcs[w.i])) ELSE {0}

\* what the system refuses in the step: shutil.move ("move"), or the removal
\* of an existing destination or of a copied source ("remove")
ErrorChoices(w) ==
    IF w.pc = "loop" /\ w.op = "move" THEN {"none", "move", "remove"}
    ELSE IF w.pc \in {"loop", "del"} THEN {"none", "remove"}
    ELSE {"none"}

FileOpStep ==
    /\ FileOpRunning(fw)
    /\ \E late \in LateChoices(fw, fs), os_error \in ErrorChoices(fw) :
          \E st \in {FileOpAfter(fw, fs, late, os_error)} :
              fw' = st.w /\ fs' = st.f
    /\ UNCHANGED <<fs0, ui, tree, restVars, listingVars, sw>>

\* FileOpWorker.cancel(), connected to the Cancel button of the progress dialog
FileOpCancel ==
    /\ FileOpRunning(fw)
    /\ ~fw.cancel
    /\ fw' = [fw EXCEPT !.cancel = TRUE]
    /\ UNCHANGED <<fs, fs0, ui, tree, restVars, listingVars, sw>>

----------------------------------------------------------------------------
(* The pane and its transfer *)

\* The pane before a transfer request.
NoUi ==
    [submitted |-> FALSE, op |-> "", srcs |-> <<>>, dst_dir |-> <<>>,
     skipped_same |-> <<>>, blocked_nested |-> <<>>, rejected |-> FALSE,
     shown |-> <<>>, seen |-> 0, dlg_value |-> -1, attempts |-> 0, started |-> 0,
     old_sigs |-> 0]

\* the destination _start_bg_op and run() compute for a source
DstOf(dst_dir, src) == Join(dst_dir, Base(src))

\* _start_bg_op: the sources it keeps, skips and blocks
IsSame(f, dst_dir, src) == _paths_same(f, src, DstOf(dst_dir, src))
IsNested(f, dst_dir, src) ==
    ~IsSame(f, dst_dir, src) /\ isdir(f, src) /\ _is_subpath(DstOf(dst_dir, src), src)
ValidSrcs(f, op, srcs, dst_dir) ==
    SelectSeq(srcs, LAMBDA src :
        /\ exists(f, src)
        /\ IsSame(f, dst_dir, src) => op = "copy"
        /\ ~IsNested(f, dst_dir, src))
SkippedSame(f, op, srcs, dst_dir) ==
    SelectSeq(srcs, LAMBDA src :
        exists(f, src) /\ IsSame(f, dst_dir, src) /\ op # "copy")
BlockedNested(f, srcs, dst_dir) ==
    SelectSeq(srcs, LAMBDA src : exists(f, src) /\ IsNested(f, dst_dir, src))

SeqRange(s) == {s[i] : i \in 1..Len(s)}

\* auto_map: a copy onto itself keeps both
AutoMapped(f, op, srcs, dst_dir) ==
    {src \in SeqRange(ValidSrcs(f, op, srcs, dst_dir)) : IsSame(f, dst_dir, src)}

\* conflicts: the kept sources whose destination exists
Conflicts(f, op, srcs, dst_dir) ==
    {src \in SeqRange(ValidSrcs(f, op, srcs, dst_dir)) \ AutoMapped(f, op, srcs, dst_dir) :
        exists(f, DstOf(dst_dir, src))}

\* ConflictResolutionDialog.result_map
Choices == {"overwrite", "skip", "copy"}

\* _on_error(msg) tells a cancelled run by its message
IsCancelMsg_never(msg) == FALSE

IsCancelMsg(msg) == msg = "Operation cancelled."

\* cur_worker and cur_worker.isRunning()
AlreadyRunning_never(w) == FALSE

AlreadyRunning(w) == FileOpRunning(w)

\* ExplorerPane._start_bg_op(op, srcs, dst_dir); `pick` is what the user sets
\* in the conflict dialog and `accepted` whether the dialog is accepted.
start_bg_op(op, srcs, dst_dir, pick, accepted) ==
    LET valid_srcs == ValidSrcs(fs, op, srcs, dst_dir)
        skipped_same == SkippedSame(fs, op, srcs, dst_dir)
        blocked_nested == BlockedNested(fs, srcs, dst_dir)
        auto == AutoMapped(fs, op, srcs, dst_dir)
        conflicts == Conflicts(fs, op, srcs, dst_dir)
        conflict_map == [src \in auto \cup conflicts |->
                            IF src \in auto THEN "copy" ELSE pick[src]]
        warned == IF blocked_nested # <<>> THEN <<"blocked">> ELSE <<>>
        ui1 == [ui EXCEPT !.submitted = TRUE, !.op = op, !.srcs = srcs,
                          !.dst_dir = dst_dir, !.skipped_same = skipped_same,
                          !.blocked_nested = blocked_nested, !.rejected = FALSE,
                          !.shown = @ \o warned, !.attempts = @ + 1]
    IN  IF AlreadyRunning(fw)
        THEN /\ ui' = [ui EXCEPT !.shown = Append(@, "already running"),
                                 !.attempts = @ + 1]
             /\ UNCHANGED <<fs, fs0, fw, fw_left>>
        ELSE IF valid_srcs = <<>>
        THEN /\ ui' = IF skipped_same # <<>>
                      THEN [ui1 EXCEPT !.shown = Append(@, "nothing to move")]
                      ELSE ui1
             /\ UNCHANGED <<fs, fs0, fw, fw_left>>
        ELSE IF conflicts # {} /\ ~accepted
        THEN /\ ui' = [ui1 EXCEPT !.rejected = TRUE]
             /\ UNCHANGED <<fs, fs0, fw, fw_left>>
        ELSE \* self._file_worker = worker; worker.start(): the signals of the
             \* previous worker that the GUI thread has not handled stay queued
             /\ ui' = [ui1 EXCEPT !.started = @ + 1, !.dlg_value = -1,
                                  !.old_sigs = Len(fw.sigs)]
             /\ fw' = [NewFileOpWorker(op, valid_srcs, dst_dir, conflict_map)
                          EXCEPT !.sigs = fw.sigs]
             /\ fw_left' = IF FileOpRunning(fw) THEN Append(fw_left, fw) ELSE fw_left
             /\ UNCHANGED <<fs, fs0>>

\* NormalStatWorker.isRunning()
StatRunning(w) == w.pc \in {"stat", "fin"}

\* NormalStatWorker.run, one path or the final signal at a time; the result
\* is the worker after the step and the signals it emitted
StatAfter(w, f) ==
    IF w.pc = "stat"
    THEN IF w.pos >= Len(w.paths) \/ w.cancel
         THEN [w |-> [w EXCEPT !.pc = "fin"], sigs |-> <<>>]
         ELSE LET path == w.paths[w.pos + 1]
                  size_val == IF ~exists(f, path) \/ isdir(f, path) THEN 0
                              ELSE getsize(f, path)
              IN  [w |-> [w EXCEPT !.pos = @ + 1],
                   sigs |-> <<[sig |-> "statReady", path |-> path, size |-> size_val]>>]
    ELSE [w |-> [w EXCEPT !.pc = "done"],
          sigs |-> <<[sig |-> "finishedCycle", batch |-> w.paths]>>]

RECURSIVE StatRunToEnd(_, _, _)
StatRunToEnd(w, f, sigs) ==
    IF StatRunning(w)
    THEN StatRunToEnd(StatAfter(w, f).w, f, sigs \o StatAfter(w, f).sigs)
    ELSE [w |-> w, sigs |-> sigs]

\* the proxy after the worker id has become `after` and has emitted `sigs`
StatEmitted(p, id, after, sigs) ==
    [p EXCEPT !.workers[id] = after, !.events = @ \o sigs]

\* w.isRunning() of the proxy's worker
stat_worker_running(p) == p._worker # 0 /\ StatRunning(p.workers[p._worker])

\* StatOverlayProxy.clear_cache -> _cancel_worker: cancel() and wait(100);
\* stopped tells whether the thread ended within the wait
cache_cleared(p0, f, stopped) ==
    LET p == [p0 EXCEPT !._cache = <<>>, !._pending = {}, !._queue = <<>>,
                        !.handed = <<>>, !.clears = @ + 1, !._worker = 0]
        id == p0._worker
        w == [p0.workers[id] EXCEPT !.cancel = TRUE]
        ended == StatRunToEnd(w, f, <<>>)
    IN  IF ~stat_worker_running(p0) THEN p
        ELSE IF stopped THEN StatEmitted(p, id, ended.w, ended.sigs)
        ELSE StatEmitted(p, id, w, <<>>)

\* The handlers _start_bg_op connects to the worker's signals, run by the GUI
\* thread for the next signal in its queue. _finish_ok clears the cache of
\* the stat proxy when the pane is in neither fast nor search mode (the
\* timer it starts requests the visible paths later); _on_error does not.
FileOpDeliver ==
    /\ ui.seen < Len(fw.sigs)
    /\ LET s == fw.sigs[ui.seen + 1]
           ui1 == [ui EXCEPT !.seen = @ + 1]
           \* the handlers of an earlier worker hold the dialog of that worker
           own == ui.seen >= ui.old_sigs
       IN  /\ ui' = CASE s.sig = "progress" ->
                           [ui1 EXCEPT !.dlg_value = IF own THEN s.pct ELSE @]
                      [] s.sig = "status" -> ui1
                      [] s.sig = "error" ->
                           IF IsCancelMsg(s.msg)
                           THEN [ui1 EXCEPT !.shown = Append(@, "cancelled")]
                           ELSE [ui1 EXCEPT !.shown = Append(@, "failed")]
                      [] s.sig = "finished_ok" ->
                           [ui1 EXCEPT !.dlg_value = IF own THEN 100 ELSE @,
                                       !.shown = Append(@, "complete")]
           /\ \E stopped \in BOOLEAN :
                 statp' = IF /\ s.sig = "finished_ok"
                             /\ ~fstat._using_fast /\ ~spane._search_mode
                          THEN cache_cleared(statp, fs, stopped)
                          ELSE statp
    /\ UNCHANGED <<fs, fs0, fw, tree, uq, sortp, fw_left, spane, fstat,
                   listingVars, sw>>

----------------------------------------------------------------------------
(* The listing specification: one pane, its listing workers *)

\* The trees a listing runs on: the kinds of the root's entries, and the
\* kinds of the entries of each readable subdirectory.
\* The kind of path p in the tree whose root has the entries top and whose
\* other directories all have the entries sub.
RECURSIVE TreeKind(_, _, _)
TreeKind(top, sub, p) ==
    IF Len(p) = 0 THEN "dir"
    ELSE IF Len(p) = 1 THEN top[p[1]]
    ELSE IF TreeKind(top, sub, Parent(p)) \in {"dir", "xdir"} THEN sub[Base(p)]
    ELSE "none"

\* The tree maps the paths that exist to their kinds.
TreeOf(top, sub) ==
    [p \in {q \in Paths : TreeKind(top, sub, q) # "none"} |-> TreeKind(top, sub, p)]

ListingTrees ==
    {TreeOf(top, sub) :
        top \in {t \in [Names -> {"none", "file", "dir", "xdir"}] :
                    /\ t[nTxt] = "file"
                    /\ t[nTXT] \in {"none", "file"}
                    /\ t[nLog] = "none"
                    /\ t[nSub] \in {"dir", "xdir"}},
        sub \in {s \in [Names -> {"none", "file"}] :
                    s[nTxt] = "file" /\ s[nTXT] = "none" /\ s[nLog] = "none"
                    /\ s[nSub] = "none"}}

\* The pane before any FastStatWorker.
NoFastStatWorker ==
    [root |-> NoRoot, rows |-> <<>>, pos |-> 0, cancel |-> FALSE, pc |-> "none",
     p |-> NoRoot]

\* `left` is a FastStatWorker the pane has let go of while its thread ran
\* on; `listing` tells whether the DirEnumWorker of the current listing has
\* still to emit its rows.
NoFastStat ==
    [w |-> NoFastStatWorker, left |-> NoFastStatWorker, listing |-> "none",
     listings |-> 0, events |-> <<>>, started |-> 0, _using_fast |-> FALSE]

\* StatOverlayProxy.__init__; `handed` lists the paths given to workers
\* since the cache was last cleared.
NoStatProxy ==
    [_cache |-> <<>>, _pending |-> {}, _queue |-> <<>>, _worker |-> 0,
     _batch_limit |-> STAT_BATCH_LIMIT, workers |-> <<>>, events |-> <<>>,
     handed |-> <<>>, requests |-> 0, clears |-> 0]

\* The pane before any search: browse mode, no search worker.
NoSearchPane ==
    [workers |-> <<>>, _search_worker |-> 0, _search_mode |-> FALSE,
     _search_model |-> <<>>, events |-> <<>>]

\* FsSortProxy.__init__: no source model, never sorted
NoSortProxy ==
    [src |-> "none", rows |-> <<>>, _sort_order |-> "AscendingOrder",
     sort_column |-> -1, order |-> <<>>]

\* The pane after ExplorerPane.__init__: no worker, an empty model.
InitPane ==
    /\ workers = [w \in EnumIds |-> NoWorker]
    /\ enum_worker = 0
    /\ events = <<>>
    /\ fast_model = [root |-> NoRoot, rows |-> <<>>]
    /\ fast_enum_done = FALSE
    /\ fast_enum_count = 0
    /\ fast_enum_root = NoRoot
    /\ status_msgs = 0
    /\ fw = NoFileOp
    /\ ui = NoUi
    /\ uq = <<>>
    /\ sortp = NoSortProxy
    /\ fw_left = <<>>
    /\ spane = NoSearchPane
    /\ statp = NoStatProxy
    /\ fstat = NoFastStat

\* Listing and search read `tree`; they run with no transfer and an empty disk.
NoFs == [p \in {<<>>} |-> Dir]
NoTree == [p \in {<<>>} |-> "dir"]
NoTransfer == fs = NoFs /\ fs0 = NoFs

InitListing == tree \in ListingTrees /\ InitPane /\ sw = NoSearch /\ NoTransfer

NextListing ==
    \/ \E path \in Paths, stopped \in BOOLEAN : set_path(path, stopped)
    \/ \E w \in EnumIds : EnumStep(w)
    \/ Deliver

SpecListing == InitListing /\ [][NextListing]_vars

\* DirEnumWorker.cancel(), called while the thread runs
EnumCancel(w) ==
    /\ EnumRunning(workers[w])
    /\ ~workers[w].cancel
    /\ workers' = [workers EXCEPT ![w].cancel = TRUE]
    /\ UNCHANGED <<transferVars, tree, restVars, enum_worker, events, fast_model, fast_enum_done,
                   fast_enum_count, fast_enum_root, status_msgs, sw>>

\* One listing on its own: the worker of the first directory change, which
\* may be cancelled at any point of its run.
NextEnum ==
    \/ \E path \in Paths : enum_worker = 0 /\ set_path(path, TRUE)
    \/ EnumStep(1)
    \/ EnumCancel(1)
    \/ Deliver

\* The trees of a single listing: any kinds of the root's entries.
EnumTrees ==
    {TreeOf(top, sub) :
        top \in {t \in [Names -> {"none", "file", "dir", "xdir"}] :
                    /\ t[nTxt] \in {"none", "file", "dir"}
                    /\ t[nTXT] \in {"none", "file"}
                    /\ t[nLog] \in {"none", "file"}},
        sub \in {s \in [Names -> {"none", "file"}] :
                    s[nTXT] = s[nTxt] /\ s[nLog] = "none" /\ s[nSub] = "none"}}

InitEnum == tree \in EnumTrees /\ InitPane /\ sw = NoSearch /\ NoTransfer

SpecEnum == InitEnum /\ [][NextEnum]_vars

\* The scheduler runs every started thread.
FairEnum == SpecEnum /\ WF_vars(EnumStep(1))

----------------------------------------------------------------------------
(* The search specification: one search of a tree *)

\* The filter texts searches are started with.
PatternStrs ==
    { <<"*", ".", "t">>,                      \* a simple extension
      <<"*", ".", "T">>,                      \* the same in upper case
      <<"*">>,
      <<";">>,                                \* separators only
      <<"?", ".", "*">>,
      <<"S", ",", " ", "c", "*">>,            \* two patterns
      <<"*", ".", "l", ";", "a", ".", "t">>,
      <<"*", ".", "*", "t">> }

\* The trees searches run on: files, subdirectories (readable or not) and
\* links at the root, files and directories below.
SearchTrees ==
    {TreeOf(top, sub) :
        top \in {t \in [Names -> {"none", "file", "dir", "xdir", "link"}] :
                    /\ t[nTxt] = "file"
                    /\ t[nTXT] \in {"none", "file"}
                    /\ t[nLog] \in {"file", "link"}
                    /\ t[nSub] \in {"dir", "xdir", "link"}},
        sub \in {s \in [Names -> {"none", "file", "dir", "link"}] :
                    /\ s[nTxt] \in {"none", "file"}
                    /\ s[nTXT] = "none"
                    /\ s[nLog] \in {"none", "file", "link"}
                    /\ s[nSub] \in {"none", "dir"}}}

InitSearch == tree \in SearchTrees /\ InitPane /\ sw = NoSearch /\ NoTransfer

NextSearch ==
    \/ \E base \in {<<>>, <<nSub>>}, pattern_str \in PatternStrs, max_results \in 1..MaxCap :
          StartSearch(base, pattern_str, max_results)
    \/ SearchStep
    \/ SearchCancel

SpecSearch == InitSearch /\ [][NextSearch]_vars

\* The scheduler runs the search thread.
FairSearch == SpecSearch /\ WF_vars(SearchStep)

----------------------------------------------------------------------------
(* The transfer specification: one request, from the paste or drop that
   submits it to the outcome the pane shows *)

nP == <<"p">>
nD == <<"d">>

\* The content of a file of n chunks whose first chunk is c.
Chunks(c, n) == [i \in 1..n |-> c + i - 1]

FsOf(entries) ==
    [p \in {e[1] : e \in entries} |-> (CHOOSE e \in entries : e[1] = p)[2]]

\* Two directories p and d: files of several sizes, a directory with files,
\* names that exist in both, and a directory d/s/s below one of its own name.
TransferTrees ==
    {FsOf({<<<<>>, Dir>>,
           <<<<nP>>, Dir>>,
           <<<<nP, nTxt>>, File(Chunks(1, MaxChunks))>>,
           <<<<nP, nSub>>, Dir>>,
           <<<<nP, nSub, nTxt>>, File(Chunks(11, 1))>>,
           <<<<nD>>, Dir>>,
           <<<<nD, nTxt>>, File(Chunks(31, 1))>>,
           <<<<nD, nSub>>, Dir>>,
           <<<<nD, nSub, nSub>>, Dir>>})}

\* What a selection can hold, and where it can be pasted or dropped.
Selectable(f) == {p \in DOMAIN f : Len(p) >= 2}
DstDirs(f) == {p \in DOMAIN f : isdir(f, p) /\ Len(p) >= 1}

RECURSIVE SelectionsUpTo(_, _)
SelectionsUpTo(S, n) ==
    IF n = 0 THEN {<<>>}
    ELSE LET shorter == SelectionsUpTo(S, n - 1)
         IN  shorter \cup {Append(s, x) : s \in shorter, x \in S}

\* the selections of 1..MaxSrcs paths, no path twice
SrcLists(f) ==
    {s \in SelectionsUpTo(Selectable(f), MaxSrcs) :
        /\ s # <<>>
        /\ \A i, j \in 1..Len(s) : i # j => s[i] # s[j]}

Ops == {"copy", "move"}

\* paste_into_current / dropEvent: the request of this behaviour
Submit ==
    /\ ~ui.submitted
    /\ \E op \in Ops, dst_dir \in DstDirs(fs), srcs \in SrcLists(fs) :
          \E pick \in [Conflicts(fs, op, srcs, dst_dir) -> Choices],
             accepted \in BOOLEAN :
                start_bg_op(op, srcs, dst_dir, pick, accepted)
    /\ UNCHANGED <<paneVars, uq, sortp, spane, statp, fstat>>

InitTransfer ==
    /\ tree = NoTree
    /\ InitPane
    /\ sw = NoSearch
    /\ fs \in TransferTrees
    /\ fs0 = fs

NextTransfer ==
    \/ Submit
    \/ FileOpStep
    \/ FileOpCancel
    \/ FileOpDeliver

SpecTransfer == InitTransfer /\ [][NextTransfer]_vars

\* The worker is a thread of its own: it keeps running.
FairTransfer == SpecTransfer /\ WF_vars(FileOpStep)

----------------------------------------------------------------------------
(* The specification of lazy attributes: a browsed directory whose visible
   paths are requested from the StatOverlayProxy, whose cache is cleared, and
   whose entries change on disk meanwhile *)

StatDir == <<nD>>

\* the entries of the browsed directory
StatPaths == {Join(StatDir, nTxt), Join(StatDir, nSub)}

StatTrees ==
    {FsOf({<<<<>>, Dir>>,
           <<StatDir, Dir>>,
           <<Join(StatDir, nTxt), File(Chunks(1, 2))>>,
           <<Join(StatDir, nSub), Dir>>})}

\* NormalStatWorker.__init__
NewStatWorker(paths) == [paths |-> paths, pos |-> 0, cancel |-> FALSE, pc |-> "stat"]

\* StatOverlayProxy._start_next_batch
start_next_batch(p) ==
    IF stat_worker_running(p) THEN p
    ELSE IF p._queue = <<>> THEN [p EXCEPT !._worker = 0]
    ELSE LET batch_size == Max(1, p._batch_limit)
             batch == SubSeq(p._queue, 1, Min(batch_size, Len(p._queue)))
         IN  [p EXCEPT !._queue = SubSeq(@, Len(batch) + 1, Len(@)),
                       !.workers = Append(@, NewStatWorker(batch)),
                       !._worker = Len(p.workers) + 1,
                       !.handed = @ \o batch]

\* the loop of request_paths over paths
RECURSIVE enqueue_paths(_, _)
enqueue_paths(p, paths) ==
    IF paths = <<>> THEN p
    ELSE LET path == Head(paths)
         IN  IF path \in DOMAIN p._cache \/ path \in p._pending
             THEN enqueue_paths(p, Tail(paths))
             ELSE enqueue_paths([p EXCEPT !._pending = @ \cup {path},
                                          !._queue = Append(@, path)],
                                Tail(paths))

\* StatOverlayProxy.request_paths(paths)
request_paths(paths) ==
    /\ statp.requests < MaxRequests
    /\ Len(statp.workers) < MaxStatWorkers
    /\ LET p == [statp EXCEPT !._batch_limit = STAT_BATCH_LIMIT, !.requests = @ + 1]
           q == enqueue_paths(p, paths)
       IN  statp' = IF q._queue # p._queue THEN start_next_batch(q) ELSE q
    /\ UNCHANGED <<paneVars, transferVars, uq, sortp, fw_left, spane, fstat>>

\* a call of stat_proxy.clear_cache() by the pane
clear_cache(stopped) ==
    /\ statp.clears < MaxClears
    /\ stat_worker_running(statp) \/ stopped
    /\ statp' = cache_cleared(statp, fs, stopped)
    /\ UNCHANGED <<paneVars, transferVars, uq, sortp, fw_left, spane, fstat>>

\* A step of the thread of stat worker id.
StatStep(id) ==
    /\ id \in 1..Len(statp.workers)
    /\ StatRunning(statp.workers[id])
    /\ LET st == StatAfter(statp.workers[id], fs)
       IN  statp' = StatEmitted(statp, id, st.w, st.sigs)
    /\ UNCHANGED <<paneVars, transferVars, uq, sortp, fw_left, spane, fstat>>

\* StatOverlayProxy._apply_stat(path, size_val, mtime_val)
apply_stat(p, path, size_val) ==
    [p EXCEPT !._cache = [q \in DOMAIN @ \cup {path} |->
                             IF q = path THEN size_val ELSE @[q]]]

\* A finished batch that leaves the queue to the next request.
on_cycle_finished_idle(p, batch) ==
    [p EXCEPT !._pending = @ \ SeqRange(batch), !._worker = 0]

\* StatOverlayProxy._on_cycle_finished(batch)
on_cycle_finished(p, batch) ==
    start_next_batch([p EXCEPT !._pending = @ \ SeqRange(batch), !._worker = 0])

\* The GUI thread handles the next queued signal of a stat worker.
StatDeliver ==
    /\ statp.events # <<>>
    /\ LET e == Head(statp.events)
           p == [statp EXCEPT !.events = Tail(@)]
       IN  /\ e.sig = "finishedCycle" /\ p._queue # <<>> =>
                  Len(statp.workers) < MaxStatWorkers
           /\ statp' = IF e.sig = "statReady" THEN apply_stat(p, e.path, e.size)
                        ELSE on_cycle_finished(p, e.batch)
    /\ UNCHANGED <<paneVars, transferVars, uq, sortp, fw_left, spane, fstat>>

\* An entry of the directory is replaced on disk: a file by a directory of
\* its name, or a directory by a file.
ReplaceEntry(path) ==
    /\ fs[path] = fs0[path]
    /\ fs' = [fs EXCEPT ![path] = IF isdir(fs, path) THEN File(Chunks(1, 1)) ELSE Dir]
    /\ UNCHANGED <<fs0, fw, ui, paneVars, restVars>>

\* StatOverlayProxy.data(index, role) for the size column of the entry at
\* path; the text of DisplayRole is kept as the number human_size formats
proxy_data_cached(p, f, path, role) ==
    IF path \in DOMAIN p._cache
    THEN IF role = "DisplayRole" THEN <<p._cache[path]>> ELSE p._cache[path]
    ELSE IF role = "DisplayRole" THEN "" ELSE 0

proxy_data(p, f, path, role) ==
    LET is_dir == isdir(f, path)
    IN  IF is_dir
        THEN IF role = "DisplayRole" THEN "" ELSE 0
        ELSE IF path \in DOMAIN p._cache
        THEN IF role = "DisplayRole" THEN <<p._cache[path]>> ELSE p._cache[path]
        ELSE IF role = "DisplayRole" THEN "" ELSE 0

\* _schedule_visible_stats in normal mode: the paths of the visible rows
\* are requested
VisiblePaths == <<Join(StatDir, nTxt), Join(StatDir, nSub)>>

\* The rows the listing of the directory appends to the FastDirModel.
ListedRows(f) ==
    [i \in 1..Len(VisiblePaths) |->
        [name |-> Base(VisiblePaths[i]), path |-> VisiblePaths[i],
         is_dir |-> isdir(f, VisiblePaths[i]), size |-> None, mtime |-> None]]

\* _use_fast_model(path) and the listing it starts, as one step: the
\* proxy's cache is cleared, the model is reset and the rows are appended
ListDirectory(stopped) ==
    /\ ~fstat._using_fast
    /\ stat_worker_running(statp) \/ stopped
    /\ statp' = cache_cleared(statp, fs, stopped)
    /\ fstat' = [fstat EXCEPT !._using_fast = TRUE]
    /\ fast_model' = append_rows([root |-> StatDir, rows |-> <<>>], ListedRows(fs))
    /\ UNCHANGED <<tree, workers, enum_worker, events, fast_enum_done,
                   fast_enum_count, fast_enum_root, status_msgs, sw,
                   transferVars, uq, sortp, fw_left, spane>>

\* _schedule_visible_stats in normal mode
schedule_normal_stats ==
    /\ ~fstat._using_fast
    /\ request_paths(VisiblePaths)

\* FastDirModel.has_stat(row)
has_stat(model, row) ==
    /\ row \in 1..Len(model.rows)
    /\ model.rows[row].size # None
    /\ model.rows[row].mtime # None

\* FastDirModel.apply_stat(row, size_val, mtime_val)
fast_apply_stat(model, row, size_val, mtime_val) ==
    IF row \notin 1..Len(model.rows) THEN model
    ELSE [model EXCEPT
            !.rows[row].size = IF @ = None /\ size_val # None THEN size_val ELSE @,
            !.rows[row].mtime = IF @ = None /\ mtime_val # None THEN mtime_val ELSE @]

\* FastDirModel.data(index, role) for the size column of a row
fast_data(model, row, role) ==
    LET r == model.rows[row]
    IN  IF role = "DisplayRole"
        THEN IF r.is_dir THEN ""
             ELSE IF r.size = None THEN ""
             ELSE <<r.size>>
        ELSE IF r.is_dir THEN 0
             ELSE IF r.size = None THEN 0 ELSE r.size

\* FastDirModel.row_path(row)
row_path(model, row) ==
    IF row \in 1..Len(model.rows) THEN model.rows[row].path ELSE NoRoot

\* FastStatWorker.run, a step at a time:
\*   check: the top of the loop, up to "p=self._model.row_path(row)"
\*   stat : os.stat(p) and "self.statReady.emit(row,size_val,mtime_val)"
\*   fin  : "finally: self.finishedCycle.emit()"
FastStatAfter(w, model, f) ==
    IF w.pc = "check"
    THEN IF w.pos >= Len(w.rows) \/ w.cancel \/ model.root # w.root
         THEN [w |-> [w EXCEPT !.pc = "fin"], sigs |-> <<>>]
         ELSE IF has_stat(model, w.rows[w.pos + 1])
         THEN [w |-> [w EXCEPT !.pos = @ + 1], sigs |-> <<>>]
         ELSE [w |-> [w EXCEPT !.pc = "stat", !.p = row_path(model, w.rows[w.pos + 1])],
               sigs |-> <<>>]
    ELSE IF w.pc = "stat"
    THEN LET row == w.rows[w.pos + 1]
             path == w.p
             size_val == IF ~exists(f, path) \/ isdir(f, path) THEN 0
                         ELSE getsize(f, path)
             mtime_val == IF exists(f, path) THEN 1 ELSE None
         IN  [w |-> [w EXCEPT !.pos = @ + 1, !.pc = "check", !.p = NoRoot],
              sigs |-> <<[sig |-> "statReady", row |-> row,
                          size |-> size_val, mtime |-> mtime_val]>>]
    ELSE [w |-> [w EXCEPT !.pc = "done"], sigs |-> <<[sig |-> "finishedCycle"]>>]

FastStatRunning(w) == w.pc \in {"check", "stat", "fin"}

\* The worker's remaining run, when it reaches its end during QThread.wait().
RECURSIVE FastStatRunToEnd(_, _, _, _)
FastStatRunToEnd(w, model, f, sigs) ==
    IF FastStatRunning(w)
    THEN LET st == FastStatAfter(w, model, f)
         IN  FastStatRunToEnd(st.w, model, f, sigs \o st.sigs)
    ELSE [w |-> w, sigs |-> sigs]

\* _schedule_visible_stats in fast mode, "to_rows": the visible rows that
\* have no size or no date
to_rows(model) ==
    SelectSeq([i \in 1..Len(model.rows) |-> i], LAMBDA row : ~has_stat(model, row))

\* _schedule_visible_stats in fast mode: a FastStatWorker is started for
\* to_rows unless there is none or a worker is running
fast_stats_scheduled(st, model) ==
    IF to_rows(model) = <<>> \/ FastStatRunning(st.w) THEN st
    ELSE [st EXCEPT
            !.w = [root |-> model.root, rows |-> to_rows(model), pos |-> 0,
                   cancel |-> FALSE, pc |-> "check", p |-> NoRoot],
            !.started = @ + 1]

\* The timer of _request_visible_stats fires after the view was scrolled,
\* resized or laid out: _schedule_visible_stats in fast mode.
schedule_fast_stats ==
    /\ fstat._using_fast
    /\ fstat.started < MaxFastStats
    /\ fstat' = fast_stats_scheduled(fstat, fast_model)
    /\ fstat' # fstat
    /\ UNCHANGED <<paneVars, transferVars, uq, sortp, fw_left, spane, statp>>

\* A step of the thread of the FastStatWorker.
FastStatStep ==
    /\ FastStatRunning(fstat.w)
    /\ LET st == FastStatAfter(fstat.w, fast_model, fs)
       IN  fstat' = [fstat EXCEPT !.w = st.w, !.events = @ \o st.sigs]
    /\ UNCHANGED <<paneVars, transferVars, uq, sortp, fw_left, spane, statp>>

\* _request_visible_stats(0): the single-shot timer is started, unless it is
\* already due; its timeout is handled by the event loop of the GUI thread
request_visible_stats(evs) ==
    IF \E i \in 1..Len(evs) : evs[i].sig = "timeout" THEN evs
    ELSE Append(evs, [sig |-> "timeout"])

\* The GUI thread handles the next queued event of the fast listing:
\* FastDirModel.apply_stat, _on_batch, _on_finished of the listing and
\* _on_fast_cycle_finished (which both ask for the visible rows), or the
\* timeout of the timer, which runs _schedule_visible_stats.
FastStatDeliver ==
    /\ fstat.events # <<>>
    /\ LET e == Head(fstat.events)
           st == [fstat EXCEPT !.events = Tail(@)]
       IN  /\ fstat' = IF e.sig \in {"finishedCycle", "finished"}
                        THEN [st EXCEPT !.events = request_visible_stats(@)]
                        ELSE IF e.sig = "timeout" /\ fstat._using_fast
                        THEN fast_stats_scheduled(st, fast_model)
                        ELSE st
           /\ fstat'.started <= MaxFastStats
           /\ fast_model' = IF e.sig = "statReady"
                             THEN fast_apply_stat(fast_model, e.row, e.size, e.mtime)
                             ELSE IF e.sig = "batchReady"
                             THEN append_rows(fast_model, e.rows)
                             ELSE fast_model
    /\ UNCHANGED <<tree, workers, enum_worker, events, fast_enum_done,
                   fast_enum_count, fast_enum_root, status_msgs, sw,
                   transferVars, uq, sortp, fw_left, spane, statp>>

InitStat ==
    /\ tree = NoTree
    /\ InitPane
    /\ sw = NoSearch
    /\ fs \in StatTrees
    /\ fs0 = fs

NextStat ==
    \/ \E paths \in SelectionsUpTo(StatPaths, 2) \ {<<>>} : request_paths(paths)
    \/ \E stopped \in BOOLEAN : clear_cache(stopped)
    \/ \E id \in 1..MaxStatWorkers : StatStep(id)
    \/ StatDeliver
    \/ \E path \in StatPaths : ReplaceEntry(path)

SpecStat == InitStat /\ [][NextStat]_vars

\* The scheduler runs the threads of the stat workers, and the event loop of
\* the GUI thread handles the queued signals.
FairStat ==
    /\ SpecStat
    /\ WF_vars(StatDeliver)
    /\ \A id \in 1..MaxStatWorkers : WF_vars(StatStep(id))

\* The sizes both models report: the directory is listed into the
\* FastDirModel and resolved by FastStatWorkers, its visible paths are
\* resolved through the StatOverlayProxy, and its entries change on disk.
NextSizes ==
    \/ schedule_normal_stats
    \/ \E id \in 1..MaxStatWorkers : StatStep(id)
    \/ StatDeliver
    \/ \E path \in StatPaths : ReplaceEntry(path)
    \/ \E stopped \in BOOLEAN : ListDirectory(stopped)
    \/ schedule_fast_stats
    \/ FastStatStep
    \/ FastStatDeliver

SpecSizes == InitStat /\ [][NextSizes]_vars

----------------------------------------------------------------------------
(* The specification of transfers into the directory the pane shows, in
   normal mode: the stat proxy resolves the entries of the directory while
   the transfer runs and after it *)

\* the selections of one entry of the directory nP
RefreshSrcs == {s \in SrcLists(fs) : Len(s) = 1 /\ Parent(s[1]) = <<nP>>}

\* paste_into_current: the selection is pasted into the directory shown
PasteIntoCurrent ==
    /\ ~ui.submitted
    /\ \E op \in Ops, srcs \in RefreshSrcs :
          \E pick \in [Conflicts(fs, op, srcs, StatDir) -> Choices],
             accepted \in BOOLEAN :
                start_bg_op(op, srcs, StatDir, pick, accepted)
    /\ UNCHANGED <<paneVars, uq, sortp, spane, statp, fstat>>

NextRefresh ==
    \/ PasteIntoCurrent
    \/ FileOpStep
    \/ FileOpCancel
    \/ FileOpDeliver
    \/ schedule_normal_stats
    \/ \E id \in 1..MaxStatWorkers : StatStep(id)
    \/ StatDeliver

SpecRefresh == InitTransfer /\ [][NextRefresh]_vars

----------------------------------------------------------------------------
(* The specification of a pane in fast mode that goes from one directory
   to another while the sizes of the rows are being resolved *)

\* the directories the pane lists
RelistDirs == {StatDir, Join(StatDir, nSub)}

RelistTrees ==
    {FsOf({<<<<>>, Dir>>,
           <<StatDir, Dir>>,
           <<Join(StatDir, nTxt), File(Chunks(1, 2))>>,
           <<Join(StatDir, nSub), Dir>>,
           <<Join(Join(StatDir, nSub), nTxt), File(Chunks(1, 1))>>})}

\* The rows a DirEnumWorker collects for a directory.
DirRows(f, dir) ==
    LET names == SelectSeq(NameOrder, LAMBDA n : exists(f, Join(dir, n)))
    IN  [i \in 1..Len(names) |->
            [name |-> names[i], path |-> Join(dir, names[i]),
             is_dir |-> isdir(f, Join(dir, names[i])), size |-> None, mtime |-> None]]

\* _use_fast_model(path): the FastStatWorker is cancelled and waited for
\* 120 ms (stopped tells whether its thread ended within the wait) and
\* forgotten, the proxy's cache is cleared, the model is reset and a
\* DirEnumWorker is started.  The DirEnumWorker of the previous listing is
\* taken to have stopped.
use_fast_model(path, stopped) ==
    /\ fstat.listings < MaxListings
    /\ isdir(fs, path)
    /\ FastStatRunning(fstat.w) \/ stopped
    /\ stopped \/ ~FastStatRunning(fstat.left)
    /\ LET w == [fstat.w EXCEPT !.cancel = TRUE]
           ended == FastStatRunToEnd(w, fast_model, fs, <<>>)
       IN  fstat' = [fstat EXCEPT
                        !.w = NoFastStatWorker,
                        !.left = IF stopped THEN @ ELSE w,
                        !.events = request_visible_stats(
                                       IF stopped /\ FastStatRunning(fstat.w)
                                       THEN @ \o ended.sigs ELSE @),
                        !.listing = "run",
                        !.listings = @ + 1,
                        !._using_fast = TRUE]
    /\ statp' = cache_cleared(statp, fs, TRUE)
    /\ fast_model' = reset_dir(path)
    /\ UNCHANGED <<tree, workers, enum_worker, events, fast_enum_done,
                   fast_enum_count, fast_enum_root, status_msgs, sw,
                   transferVars, uq, sortp, fw_left, spane>>

\* The DirEnumWorker of the current listing emits its rows and ends.
EnumBatchReady ==
    /\ fstat.listing = "run"
    /\ fstat' = [fstat EXCEPT
                    !.listing = "done",
                    !.events = @ \o <<[sig |-> "batchReady",
                                       rows |-> DirRows(fs, fast_model.root)],
                                      [sig |-> "finished"]>>]
    /\ UNCHANGED <<paneVars, transferVars, uq, sortp, fw_left, spane, statp>>

\* A step of the thread of a FastStatWorker the pane has let go of.
LeftFastStatStep ==
    /\ FastStatRunning(fstat.left)
    /\ LET st == FastStatAfter(fstat.left, fast_model, fs)
       IN  fstat' = [fstat EXCEPT !.left = st.w, !.events = @ \o st.sigs]
    /\ UNCHANGED <<paneVars, transferVars, uq, sortp, fw_left, spane, statp>>

InitRelist ==
    /\ tree = NoTree
    /\ InitPane
    /\ sw = NoSearch
    /\ fs \in RelistTrees
    /\ fs0 = fs

NextRelist ==
    \/ \E path \in RelistDirs, stopped \in BOOLEAN : use_fast_model(path, stopped)
    \/ EnumBatchReady
    \/ schedule_fast_stats
    \/ FastStatStep
    \/ LeftFastStatStep
    \/ FastStatDeliver

SpecRelist == InitRelist /\ [][NextRelist]_vars

----------------------------------------------------------------------------
(* The specification of the fast listing whose files can disappear from the
   disk after they were listed; the view is not scrolled, so the visible
   rows are asked for by the handlers of the listing and of the workers *)

\* Another program deletes a file.
DeleteEntry(path) ==
    /\ exists(fs, path) /\ ~isdir(fs, path)
    /\ fs' = remove(fs, path)
    /\ UNCHANGED <<fs0, fw, ui, paneVars, restVars>>

NextIdle ==
    \/ \E path \in RelistDirs, stopped \in BOOLEAN : use_fast_model(path, stopped)
    \/ EnumBatchReady
    \/ FastStatStep
    \/ LeftFastStatStep
    \/ FastStatDeliver
    \/ \E path \in DOMAIN fs : DeleteEntry(path)

SpecIdle == InitRelist /\ [][NextIdle]_vars

\* The scheduler runs the worker threads, and the event loop of the GUI
\* thread handles the queued signals and the timer.
FairIdle ==
    /\ SpecIdle
    /\ WF_vars(EnumBatchReady)
    /\ WF_vars(FastStatStep)
    /\ WF_vars(LeftFastStatStep)
    /\ WF_vars(FastStatDeliver)

----------------------------------------------------------------------------
(* The specification of the filter box: searches started one after the
   other on one pane, each replacing the previous one *)

FilterTrees ==
    {TreeOf(top, sub) :
        top \in {t \in [Names -> {"none", "file", "dir"}] :
                    /\ t[nTxt] = "file"
                    /\ t[nTXT] = "none"
                    /\ t[nLog] = "file"
                    /\ t[nSub] = "dir"},
        sub \in {s \in [Names -> {"none", "file"}] :
                    /\ s[nTxt] = "file"
                    /\ s[nTXT] = "none"
                    /\ s[nLog] = "none"
                    /\ s[nSub] = "none"}}

FilterStrs == {<<"*", ".", "t">>, <<"*">>}

\* the signals a worker emits in a step, as events queued for the GUI thread
SearchEvents(id, before, after) ==
    [i \in 1..(Len(after.sigs) - Len(before.sigs)) |->
        [w |-> id, sig |-> after.sigs[Len(before.sigs) + i].sig,
         rows |-> after.sigs[Len(before.sigs) + i].rows]]

RECURSIVE SearchRunToEnd(_)
SearchRunToEnd(w) == IF SearchRunning(w) THEN SearchRunToEnd(SearchAfter(w)) ELSE w

\* _stop_worker_thread(self._search_worker, 120, "search"): cancel() and a
\* bounded wait; stopped tells whether the thread ended within the wait
stop_search_thread(w, stopped) ==
    IF ~SearchRunning(w) THEN w
    ELSE IF stopped
    THEN SearchRunToEnd([w EXCEPT !.cancel = TRUE, !.cancel_called = TRUE])
    ELSE [w EXCEPT !.cancel = TRUE, !.cancel_called = TRUE]

\* ExplorerPane._apply_filter with a filter text that is not empty:
\* _cancel_search_worker(), a new SearchResultModel, a new SearchWorker.
apply_filter(base, pattern_str, stopped) ==
    /\ Len(spane.workers) < MaxSearches
    /\ KindOf(base) \in {"dir", "xdir"}
    /\ LET old == spane._search_worker
           stopOld == old # 0 /\ SearchRunning(spane.workers[old])
           after == IF old = 0 THEN NoSearch
                    ELSE stop_search_thread(spane.workers[old], stopped)
           emitted == IF old = 0 THEN <<>>
                      ELSE SearchEvents(old, spane.workers[old], after)
           kept == [v \in 1..Len(spane.workers) |->
                       IF v = old THEN after ELSE spane.workers[v]]
       IN  /\ stopOld \/ stopped
           /\ spane' = [workers |-> Append(kept,
                                      NewSearchWorker(base, pattern_str, SEARCH_RESULT_LIMIT)),
                        _search_worker |-> Len(spane.workers) + 1,
                        _search_mode |-> TRUE,
                        _search_model |-> <<>>,
                        events |-> spane.events \o emitted]
    /\ UNCHANGED <<paneVars, transferVars, uq, sortp, fw_left, statp, fstat>>

\* A step of the thread of search worker id.
FilterStep(id) ==
    /\ id \in 1..Len(spane.workers)
    /\ SearchRunning(spane.workers[id])
    /\ LET after == SearchAfter(spane.workers[id])
       IN  spane' = [spane EXCEPT
                       !.workers[id] = after,
                       !.events = @ \o SearchEvents(id, spane.workers[id], after)]
    /\ UNCHANGED <<paneVars, transferVars, uq, sortp, fw_left, statp, fstat>>

\* ExplorerPane._on_search_batch(base_path, rows); a row of the model keeps
\* the worker it came from
on_search_batch(p, id, rows) ==
    IF ~p._search_mode THEN p
    ELSE [p EXCEPT !._search_model =
                      @ \o [i \in 1..Len(rows) |-> [w |-> id, row |-> rows[i]]]]

\* ExplorerPane._on_search_finished
on_search_finished(p) == [p EXCEPT !._search_worker = 0]

\* The GUI thread handles the next queued signal.
FilterDeliver ==
    /\ spane.events # <<>>
    /\ LET e == Head(spane.events)
           p == [spane EXCEPT !.events = Tail(@)]
       IN  spane' = CASE e.sig = "batch"    -> on_search_batch(p, e.w, e.rows)
                      [] e.sig = "finished" -> on_search_finished(p)
                      [] OTHER              -> p
    /\ UNCHANGED <<paneVars, transferVars, uq, sortp, fw_left, statp, fstat>>

InitFilter == tree \in FilterTrees /\ InitPane /\ sw = NoSearch /\ NoTransfer

NextFilter ==
    \/ \E base \in {<<>>, <<nSub>>}, pattern_str \in FilterStrs, stopped \in BOOLEAN :
          apply_filter(base, pattern_str, stopped)
    \/ \E id \in 1..MaxSearches : FilterStep(id)
    \/ FilterDeliver

SpecFilter == InitFilter /\ [][NextFilter]_vars

----------------------------------------------------------------------------
(* The specification of repeated requests: the pane is asked to copy or move
   one entry at a time, at any moment, also while a transfer is running *)

ResubmitTrees ==
    {FsOf({<<<<>>, Dir>>,
           <<<<nP>>, Dir>>,
           <<<<nP, nTxt>>, File(Chunks(1, 1))>>,
           <<<<nD>>, Dir>>})}

\* paste_into_current / dropEvent, any number of times
Resubmit ==
    /\ ui.attempts < MaxSubmits
    /\ \E op \in Ops, dst_dir \in DstDirs(fs), src \in Selectable(fs) :
          \E pick \in [Conflicts(fs, op, <<src>>, dst_dir) -> Choices],
             accepted \in BOOLEAN :
                start_bg_op(op, <<src>>, dst_dir, pick, accepted)
    /\ UNCHANGED <<paneVars, uq, sortp, spane, statp, fstat>>

InitResubmit ==
    /\ tree = NoTree
    /\ InitPane
    /\ sw = NoSearch
    /\ fs \in ResubmitTrees
    /\ fs0 = fs

NextResubmit ==
    \/ Resubmit
    \/ FileOpStep
    \/ FileOpCancel
    \/ FileOpDeliver

SpecResubmit == InitResubmit /\ [][NextResubmit]_vars

----------------------------------------------------------------------------
(* The specification of unique_dest_path: calls for names of a directory
   that holds any of the names and of their first copies, each returned
   path created before the next call *)

nHidden == <<".", "h">>

UniqueDir == <<nD>>
UniqueNames == {nTxt, nSub, nHidden}

\* the names the directory can hold when the first call is made
UniquePool ==
    {n : n \in UniqueNames}
        \cup {splitext(n)[1] \o CopySuffix(i) \o splitext(n)[2] :
                 n \in UniqueNames, i \in 1..2}

UniqueDirs ==
    {FsOf({<<<<>>, Dir>>, <<UniqueDir, Dir>>}
            \cup {<<Join(UniqueDir, n), File(<<>>)>> : n \in held}) :
        held \in SUBSET UniquePool}

\* dst = unique_dest_path(dst_dir, name), and dst is created
UniqueCall(name) ==
    /\ Len(uq) < MaxCalls
    /\ LET dst == unique_dest_path(fs, UniqueDir, name)
       IN  /\ uq' = Append(uq, [name |-> name, before |-> DOMAIN fs, path |-> dst])
           /\ fs' = open_wb(fs, dst)
    /\ UNCHANGED <<fs0, fw, ui, paneVars, sortp, fw_left, spane, statp, fstat>>

InitUnique ==
    /\ tree = NoTree
    /\ InitPane
    /\ sw = NoSearch
    /\ fs \in UniqueDirs
    /\ fs0 = fs

NextUnique == \E name \in UniqueNames : UniqueCall(name)

SpecUnique == InitUnique /\ [][NextUnique]_vars

----------------------------------------------------------------------------
(* The specification of FsSortProxy: a source model of two rows is set, and
   the view sorts it by any column in any order, any number of times *)

\* the models a pane puts under an FsSortProxy
SortSources == {"FastDirModel", "StatOverlayProxy", "SearchResultModel"}

\* name, size, date, and type or folder
SortColumns == 0..3

\* A row: whether it is a directory, and for every column the rank of the
\* value the column's comparison reads; the size of a directory is 0.
SortRows ==
    {r \in [is_dir : BOOLEAN, key : [SortColumns -> 0..MaxKey]] :
        r.is_dir => r.key[1] = 0}

\* ldir = bool(src.isDir(left)) if hasattr(src, "isDir")
\*        else bool(src.data(left, IS_DIR_ROLE))
\* StatOverlayProxy has isDir; FastDirModel.data answers IS_DIR_ROLE from the
\* row in every column; a SearchResultModel holds one item per cell, and
\* _on_search_batch sets IS_DIR_ROLE on the name item (column 0) only.
sort_is_dir(p, index) ==
    IF p.src = "SearchResultModel"
    THEN index.column = 0 /\ p.rows[index.row].is_dir
    ELSE p.rows[index.row].is_dir

\* FsSortProxy.lessThan(left, right)
lessThan(p, left, right) ==
    LET col == left.column
        ldir == sort_is_dir(p, left)
        rdir == sort_is_dir(p, right)
    IN  IF ldir # rdir
        THEN IF p._sort_order = "AscendingOrder"
             THEN ldir /\ ~rdir
             ELSE (~ldir) /\ rdir
        ELSE p.rows[left.row].key[col] < p.rows[right.row].key[col]

\* QSortFilterProxyModel.sort of two rows (a stable sort): ascending puts
\* row 2 first iff lessThan(row 2, row 1), descending iff lessThan(row 1, row 2)
sorted_rows(p, column, order) ==
    LET i1 == [row |-> 1, column |-> column]
        i2 == [row |-> 2, column |-> column]
        swap == IF order = "AscendingOrder" THEN lessThan(p, i2, i1)
                                            ELSE lessThan(p, i1, i2)
    IN  IF swap THEN <<2, 1>> ELSE <<1, 2>>

\* proxy.setSourceModel(model), the model holding two rows
setSourceModel(src, rows) ==
    /\ sortp.src = "none"
    /\ sortp' = [sortp EXCEPT !.src = src, !.rows = rows, !.order = <<1, 2>>]
    /\ UNCHANGED <<paneVars, transferVars, uq, fw_left, spane, statp, fstat>>

\* FsSortProxy.sort(column, order)
sort(column, order) ==
    /\ sortp.src # "none"
    /\ LET p == [sortp EXCEPT !._sort_order = order]
       IN  sortp' = [p EXCEPT !.sort_column = column,
                              !.order = sorted_rows(p, column, order)]
    /\ UNCHANGED <<paneVars, transferVars, uq, fw_left, spane, statp, fstat>>

InitSort == tree = NoTree /\ InitPane /\ sw = NoSearch /\ NoTransfer

NextSort ==
    \/ \E src \in SortSources, r1, r2 \in SortRows : setSourceModel(src, <<r1, r2>>)
    \/ \E column \in SortColumns, order \in {"AscendingOrder", "DescendingOrder"} :
          sort(column, order)

SpecSort == InitSort /\ [][NextSort]_vars

----------------------------------------------------------------------------
(* Claims about the listing *)

\* The rows of all batches a worker emitted, in order.
RECURSIVE BatchRows(_)
BatchRows(sigs) ==
    IF sigs = <<>> THEN <<>>
    ELSE (IF Head(sigs).sig = "batch" THEN Head(sigs).rows ELSE <<>>)
         \o BatchRows(Tail(sigs))

SigKinds(sigs) == [i \in 1..Len(sigs) |-> sigs[i].sig]

\* The direct children of a directory, as rows, each once.
ChildRows(root) ==
    [i \in 1..Len(Entries(root)) |-> EnumRow(root, Entries(root)[i])]

ListingComplete(wr) ==
    /\ wr.pc = "done"
    /\ \A i \in 1..Len(wr.sigs) : wr.sigs[i].sig # "error"
    /\ wr.sigs # <<>> /\ wr.sigs[Len(wr.sigs)].sig = "finished"
    /\ BatchRows(wr.sigs) = ChildRows(wr.root)
    /\ \A i, j \in 1..Len(BatchRows(wr.sigs)) :
          i # j => BatchRows(wr.sigs)[i].path # BatchRows(wr.sigs)[j].path
    /\ \A i \in 1..Len(BatchRows(wr.sigs)) :
          Parent(BatchRows(wr.sigs)[i].path) = wr.root

\* C1: a listing worker started on a readable directory and never cancelled
\* eventually emits finished, emits no error, and its batches together hold
\* each direct child of the directory exactly once and nothing else.
C1_ListingDelivers ==
    /\ [](\A w \in EnumIds :
            (workers[w].pc = "done" /\ ~workers[w].cancel /\ CanScan(workers[w].root))
                => ListingComplete(workers[w]))
    /\ \A w \in EnumIds :
            (workers[w].pc = "open" /\ CanScan(workers[w].root))
                ~> (workers[w].pc = "done"
                    /\ (workers[w].cancel \/ ListingComplete(workers[w])))

\* C1's case: an uncancelled listing of a directory with more children than
\* one batch holds has ended.
C1_Witness ==
    \E w \in EnumIds :
        /\ workers[w].pc = "done" /\ ~workers[w].cancel
        /\ CanScan(workers[w].root)
        /\ Len(Entries(workers[w].root)) > BATCH_enum
        /\ SigKinds(workers[w].sigs) = <<"batch", "batch", "finished">>

\* C5: every row of the EntryModel is a direct child of the model's root.
C5_RowsAreChildrenOfRoot ==
    \A i \in 1..Len(fast_model.rows) :
        Parent(fast_model.rows[i].path) = fast_model.root

\* the listing workers whose threads are running
RunningEnumWorkers == {w \in EnumIds : EnumRunning(workers[w])}

\* C16: at most one listing worker of the pane is running at any time: a new
\* listing starts its worker only after the previous one has stopped.
C16_OneListingWorker == Cardinality(RunningEnumWorkers) <= 1

\* the number of batches a listing worker has emitted
BatchCount(wr) == Len(SelectSeq(wr.sigs, LAMBDA x : x.sig = "batch"))

\* C19: once a listing worker has observed its cancel flag set, it emits no
\* further batch.
C19_NoBatchAfterCancelSeen ==
    [][\A w \in EnumIds :
          workers[w].saw_cancel => BatchCount(workers'[w]) = BatchCount(workers[w])]_vars

\* the number of signals of one kind a worker has emitted
SigCount(wr, kind) == Len(SelectSeq(wr.sigs, LAMBDA x : x.sig = kind))

\* C22: a listing whose root cannot be opened emits exactly one error signal
\* and no batch; and every listing, complete, cancelled or failed, emits
\* finished exactly once, as the last of its signals.
C22_FailedListingSignals ==
    \A w \in EnumIds :
        LET wr == workers[w]
        IN  /\ (wr.pc \in {"fin", "done"} /\ ~CanScan(wr.root))
                    => (SigCount(wr, "error") = 1 /\ BatchCount(wr) = 0)
            /\ \A i \in 1..Len(wr.sigs) :
                    wr.sigs[i].sig = "finished" => i = Len(wr.sigs)
            /\ SigCount(wr, "finished") = (IF wr.pc = "done" THEN 1 ELSE 0)

\* C22's case: the listing of a directory that cannot be opened has ended.
C22_Witness ==
    \E w \in EnumIds :
        /\ workers[w].pc = "done" /\ ~CanScan(workers[w].root)
        /\ SigKinds(workers[w].sigs) = <<"error", "finished">>

----------------------------------------------------------------------------
(* Claims about the search *)

\* The directories of the subtree of base that are reached without passing
\* a symbolic link, base included; with readableOnly, those reached through
\* directories that can be read, and readable themselves.
SubtreeDirs(base, readableOnly) ==
    {d \in Paths :
        /\ IsPrefix(base, d)
        /\ \A k \in Len(base)..Len(d) :
              KindOf(SubSeq(d, 1, k)) \in
                  (IF readableOnly THEN {"dir"} ELSE {"dir", "xdir"})}

SubtreeEntries(base, readableOnly) ==
    {Join(d, n) : d \in SubtreeDirs(base, readableOnly), n \in Names}
        \cap DOMAIN tree

\* A name matches one of the patterns a filter text is made of, by glob,
\* whatever the case of the letters.
MatchesOneOf(tokens, name) ==
    \E i \in 1..Len(tokens) : fnmatchcase(LowerStr(name), LowerStr(tokens[i]))

\* The tokens of a filter text; one without any token stands for "*".
TokensOrStar(pattern_str) ==
    IF Split(pattern_str) = <<>> THEN << <<"*">> >> ELSE Split(pattern_str)

SearchResults == BatchRows(sw.sigs)

ResultFor(p, base) ==
    [name |-> Base(p), path |-> p, is_dir |-> KindOf(p) \in {"dir", "xdir"},
     folder |-> SubSeq(Parent(p), Len(base) + 1, Len(p) - 1)]

\* The results are exactly the entries of `expected`, each once, each with
\* the folder of its containing directory relative to the base.
ResultsAre(expected) ==
    /\ {SearchResults[i] : i \in 1..Len(SearchResults)}
         = {ResultFor(p, sw.base) : p \in expected}
    /\ Len(SearchResults) = Cardinality(expected)

UncancelledSearchDone == sw.pc = "done" /\ ~sw.cancel_called

\* The entries the original statements speak of / those the search can reach.
MatchingInSubtree ==
    {p \in SubtreeEntries(sw.base, FALSE) : MatchesOneOf(Split(sw.pattern_str), Base(p))}

MatchingReadable ==
    {p \in SubtreeEntries(sw.base, TRUE) : MatchesOneOf(TokensOrStar(sw.pattern_str), Base(p))}

\* C6 as stated: an uncancelled search below the cap reports exactly the
\* entries of the subtree (not behind a link) whose name matches one of the
\* separated patterns.
C6_AsStated ==
    (UncancelledSearchDone /\ Cardinality(MatchingInSubtree) < sw.max_results)
        => ResultsAre(MatchingInSubtree)

\* C6, amended: an uncancelled search below the cap reports exactly the entries
\* found in the readable directories of the subtree, reached through readable
\* directories and no link, whose name matches one of the separated patterns,
\* a filter text without any pattern standing for "*"; each once, with the
\* folder of its directory relative to the root.
C6_SearchFindsMatches ==
    (UncancelledSearchDone /\ Cardinality(MatchingReadable) < sw.max_results)
        => ResultsAre(MatchingReadable)

\* C6's case: a search by extension has reported at least three entries, one
\* of them in a subdirectory and one spelled in upper case.
C6_Witness ==
    /\ UncancelledSearchDone
    /\ Cardinality(MatchingReadable) < sw.max_results
    /\ sw.pattern_str = <<"*", ".", "t">>
    /\ Len(SearchResults) >= 3
    /\ \E i \in 1..Len(SearchResults) : SearchResults[i].folder = <<nSub>>
    /\ \E i \in 1..Len(SearchResults) : SearchResults[i].name = nTXT

TruncatedValues ==
    SelectSeq(sw.sigs, LAMBDA x : x.sig = "truncated")

CappedAt(k) ==
    /\ Len(SearchResults) = k
    /\ Len(TruncatedValues) = 1
    /\ TruncatedValues[1].rows = <<k>>

\* C7 as stated: with more than K matching entries in the tree, an
\* uncancelled search emits K results and its truncated signal carries K.
C7_AsStated ==
    (UncancelledSearchDone /\ Cardinality(MatchingInSubtree) > sw.max_results)
        => CappedAt(sw.max_results)

\* C7, amended: with a cap K and more than K matching entries in the
\* directories the search can read (reached through readable directories and
\* no link), an uncancelled search emits exactly K results in all its batches
\* and its truncated signal carries exactly K.
C7_CapIsExact ==
    (UncancelledSearchDone /\ Cardinality(MatchingReadable) > sw.max_results)
        => CappedAt(sw.max_results)

\* C7's case: a search capped at 2 has ended after a full batch and the
\* truncated signal.
C7_Witness ==
    /\ UncancelledSearchDone
    /\ sw.max_results = 2
    /\ Cardinality(MatchingReadable) > 3
    /\ SigKinds(sw.sigs) = <<"batch", "truncated", "finished">>

\* C20: when cancel() is called on a search worker before it has emitted its
\* truncated signal, no truncated signal is emitted for that search.
C20_CancelSuppressesTruncated ==
    [][sw.cancel_called => Len(TruncatedValues') = Len(TruncatedValues)]_vars

\* C21: a directory that cannot be opened produces no error signal and
\* does not stop the search: a search that ends uncancelled and untruncated
\* has reported every matching entry of the readable directories, and a
\* search that has ended has emitted finished last.
C21_UnreadableDirIsSkipped ==
    /\ \A i \in 1..Len(sw.sigs) : sw.sigs[i].sig # "error"
    /\ sw.pc = "done" => sw.sigs[Len(sw.sigs)].sig = "finished"
    /\ (UncancelledSearchDone /\ ~sw.truncated) =>
          \A p \in MatchingReadable :
              \E i \in 1..Len(SearchResults) : SearchResults[i] = ResultFor(p, sw.base)

\* C21's case: the root holds a directory that cannot be read, with a
\* matching entry inside, and the search has reported the matching entries
\* of the root.
C21_Witness ==
    /\ UncancelledSearchDone /\ ~sw.truncated
    /\ sw.base = <<>>
    /\ KindOf(<<nSub>>) = "xdir"
    /\ <<nSub>> \notin SeqRange(sw.scanned)
    /\ MatchingInSubtree # MatchingReadable
    /\ Len(SearchResults) >= 2

\* what the search has examined so far: the directories opened and the
\* position in the current one
Examined == <<sw.scanned, sw.d, sw.pos>>

SigRank(s) == CASE s.sig = "batch" -> 0 [] s.sig = "truncated" -> 1 [] OTHER -> 2

\* all result batches first, then at most one truncated, then at most one
\* finished
SigsOrdered(sigs) ==
    /\ \A i, j \in 1..Len(sigs) : i < j => SigRank(sigs[i]) <= SigRank(sigs[j])
    /\ \A i, j \in 1..Len(sigs) : (i # j /\ SigRank(sigs[i]) >= 1) => sigs[i].sig # sigs[j].sig

\* C30 as stated: once the number of matches produced has reached the cap
\* the search examines no further entry, and it ends with a truncated signal.
C30_AsStated ==
    [][/\ (SearchRunning(sw) /\ sw.matches >= sw.max_results) => Examined' = Examined
       /\ (sw'.pc = "done" /\ sw'.matches >= sw'.max_results) =>
              Len(TruncatedValues') = 1]_vars

\* C30, amended: when a search that has produced as many matches as the cap
\* finds one more matching entry it stops at once: from then on it examines
\* no further entry and produces no further match, and it emits truncated
\* carrying the count produced, which is the cap; the signals of a search
\* are ordered, all batches first, then truncated, then finished last.
C30_CapStopsSearch ==
    [][/\ (~sw.truncated /\ sw'.truncated) =>
              (sw.matches = sw.max_results /\ sw'.matches = sw.matches
                 /\ Examined' = Examined)
       /\ (sw.truncated /\ SearchRunning(sw)) =>
              (Examined' = Examined /\ sw'.matches = sw.matches)
       /\ SigsOrdered(sw'.sigs)
       /\ (sw'.pc = "done" /\ sw'.truncated) =>
              /\ Len(TruncatedValues') = 1
              /\ TruncatedValues'[1].rows = <<sw'.max_results>>
              /\ Len(SearchResults') = sw'.max_results
              /\ sw'.sigs[Len(sw'.sigs)].sig = "finished"
       /\ (sw'.pc = "done" /\ ~sw'.truncated) => Len(TruncatedValues') = 0]_vars

\* C30's case: a search capped at 1 has stopped at the second match, with
\* entries of the directory left unexamined.
C30_Witness ==
    /\ sw.pc = "done" /\ sw.truncated
    /\ sw.max_results = 1
    /\ SigKinds(sw.sigs) = <<"batch", "truncated", "finished">>
    /\ sw.scanned = <<sw.base>>
    /\ sw.pos + 1 < Len(Entries(sw.d))

\* a symbolic link lies on the way from the base of the search to d
ThroughLink(base, d) ==
    \E k \in (Len(base) + 1)..Len(d) : KindOf(SubSeq(d, 1, k)) = "link"

----------------------------------------------------------------------------
(* Claims about transfers *)

\* the percent values the worker emitted, in order
ProgressPcts(sigs) ==
    LET ps == SelectSeq(sigs, LAMBDA s : s.sig = "progress")
    IN  [i \in 1..Len(ps) |-> ps[i].pct]

IsTerminal(s) == s.sig \in {"finished_ok", "error"}
Terminals(sigs) == SelectSeq(sigs, IsTerminal)
LastSig(sigs) == sigs[Len(sigs)]

RunEnded == fw.pc = "done"
EndedInSuccess == RunEnded /\ LastSig(fw.sigs).sig = "finished_ok"
EndedCancelled ==
    RunEnded /\ LastSig(fw.sigs).sig = "error"
             /\ LastSig(fw.sigs).msg = "Operation cancelled."

\* the sources of the request that existed when it was submitted
Requested == {src \in SeqRange(ui.srcs) : exists(fs0, src)}

\* everything at and below p is as it was when the request was submitted
Intact(p) == \A q \in Under(fs0, p) : exists(fs, q) /\ fs[q] = fs0[q]

\* C2: in a Copy the source is never modified or deleted, whenever cancel()
\* is called or not.
C2_CopyKeepsSources ==
    (ui.submitted /\ ui.op = "copy") => \A src \in Requested : Intact(src)

\* C8: with byte-based progress the emitted percent values never decrease,
\* and a run that ends in success has emitted 100 last.
C8_ProgressMonotone ==
    ~fw.count_progress =>
        LET pcts == ProgressPcts(fw.sigs)
        IN  /\ \A i, j \in 1..Len(pcts) : i <= j => pcts[i] <= pcts[j]
            /\ EndedInSuccess => (pcts # <<>> /\ pcts[Len(pcts)] = 100)

\* A byte-based run ended in success after progress values below 100.
C8_Witness ==
    /\ EndedInSuccess
    /\ ~fw.count_progress
    /\ \E i \in 1..Len(ProgressPcts(fw.sigs)) :
          ProgressPcts(fw.sigs)[i] > 0 /\ ProgressPcts(fw.sigs)[i] < 100

\* run() is past _calc_total: in the loop over the sources or at its end
Processing(w) == w.pc \in {"loop", "walk", "file", "chunk", "del", "end"}

\* C32: the progress mode and the progress total are set once, when the size
\* estimation returns and before any source is processed: they keep their
\* initial values while the estimation runs, and neither changes while the
\* sources are processed nor when the run ends.
C32_ModeChosenOnce ==
    [][/\ (fw.pc = "calc" /\ fw'.pc = "calc") =>
              (fw'.total = 0 /\ ~fw'.count_progress /\ fw'.done = 0)
       /\ (fw.pc = "calc" /\ fw'.pc # "calc") => fw'.total >= 1
       /\ Processing(fw) =>
              (fw'.count_progress = fw.count_progress /\ fw'.total = fw.total)]_vars

\* A count-based run has processed a source and counted more units than its
\* total.
C32_Witness ==
    /\ Processing(fw) /\ fw.count_progress
    /\ fw.i > 1 /\ fw.done > fw.total

\* C33: with count-based progress the counter advances by exactly one in a
\* step that finishes a source, and by nothing in any other step of the loop
\* over the sources.
C33_OneUnitPerSource ==
    [][(Processing(fw) /\ fw.count_progress /\ ~fw.cancel /\ Processing(fw')) =>
           fw'.done = fw.done + (IF fw'.i = fw.i + 1 THEN 1 ELSE 0)]_vars

\* C38: in byte-based and in count-based runs every emitted percent lies in
\* 0..100 and no emitted percent is lower than one emitted before it, also
\* when the counter has passed the estimated total.
C38_PercentInRange ==
    LET pcts == ProgressPcts(fw.sigs)
    IN  /\ \A i \in 1..Len(pcts) : pcts[i] \in 0..100
        /\ \A i \in 2..Len(pcts) : pcts[i - 1] <= pcts[i]

\* A count-based run has counted more units than its total and has emitted
\* a percent below 100 and, later, 100 more than once.
C38_Witness ==
    LET pcts == ProgressPcts(fw.sigs)
    IN  /\ fw.count_progress /\ fw.done > fw.total
        /\ Len(pcts) >= 3
        /\ pcts[1] < 100
        /\ pcts[Len(pcts) - 1] = 100 /\ pcts[Len(pcts)] = 100

\* C39: every emitted percent is 100, or is the first of its run, or is at
\* least 1 above the percent emitted before it. (The elapsed time never
\* decides in _emit_progress: it is consulted only for a percent that is
\* already above the last one, so no emission rests on the 50 ms alone.)
C39_EmittedOnlyOnIncrease ==
    LET pcts == ProgressPcts(fw.sigs)
    IN  \A i \in 1..Len(pcts) :
            \/ pcts[i] = 100
            \/ i = 1
            \/ pcts[i] >= pcts[i - 1] + 1

\* A byte-based run has emitted a first percent, a higher one below 100,
\* and 100 twice.
C39_Witness ==
    LET pcts == ProgressPcts(fw.sigs)
    IN  /\ ~fw.count_progress
        /\ Len(pcts) >= 4
        /\ pcts[1] < pcts[2] /\ pcts[2] < 100
        /\ pcts[Len(pcts) - 1] = 100 /\ pcts[Len(pcts)] = 100

\* C10: once every source was processed without an exception, the run emits
\* progress 100 and then success, also when cancel() is called after the
\* last source.
C10_AllProcessedThenSuccess ==
    (RunEnded /\ fw.i = Len(fw.srcs) + 1 /\ ~fw.read_cancel /\ ~fw.raised) =>
        /\ EndedInSuccess
        /\ Len(fw.sigs) >= 2
        /\ fw.sigs[Len(fw.sigs) - 1] = FSig("progress", 100, "")

\* C2, the move: the copy that replaces a refused shutil.move removes the
\* source only when the flag is not set and the destination holds all of it.
CopiedTo(f, src, dst) ==
    \A q \in Under(f, src) :
        exists(f, Renamed(src, dst, q)) /\ f[Renamed(src, dst, q)] = f[q]
C2_RemovedOnlyAfterFullCopy ==
    [][(fw.pc = "del" /\ exists(fs, fw.cp_src) /\ ~exists(fs', fw.cp_src)) =>
          (~fw.cancel /\ CopiedTo(fs, fw.cp_src, fw.cp_dst))]_vars

\* the outcomes the pane has shown for the run
ShownOutcomes ==
    SelectSeq(ui.shown, LAMBDA m : m \in {"complete", "cancelled", "failed"})

OneOutcome ==
    /\ Len(Terminals(fw.sigs)) <= 1
    /\ Terminals(fw.sigs) # <<>> => IsTerminal(LastSig(fw.sigs))
    /\ RunEnded <=> Terminals(fw.sigs) # <<>>

OutcomeShown ==
    /\ Len(ShownOutcomes) <= 1
    /\ EndedCancelled => \A k \in 1..Len(ShownOutcomes) : ShownOutcomes[k] = "cancelled"
    /\ (EndedCancelled /\ ui.seen = Len(fw.sigs)) => ShownOutcomes = <<"cancelled">>

\* C9: every run ends, with exactly one of success, cancelled and failed as
\* the last signal it emits, and the pane shows a cancelled run as cancelled,
\* never as complete or failed.
C9_OneTerminalOutcome ==
    /\ [](OneOutcome /\ OutcomeShown)
    /\ (fw.pc # "none") ~> RunEnded

\* A run was cancelled in the middle of a copy and the pane has shown it.
C9_Witness ==
    /\ EndedCancelled
    /\ ui.seen = Len(fw.sigs)
    /\ ShownOutcomes = <<"cancelled">>
    /\ \E i \in 1..Len(ProgressPcts(fw.sigs)) : ProgressPcts(fw.sigs)[i] > 0

\* the sources the pane has to hand to the worker: all but the missing ones,
\* the directories whose destination is inside them, and, in a move, the
\* ones that are at their destination already
DstInsideSelf(src) ==
    /\ isdir(fs0, src)
    /\ DstOf(ui.dst_dir, src) # src
    /\ IsPrefix(src, DstOf(ui.dst_dir, src))
AtDestination(src) == DstOf(ui.dst_dir, src) = src
Nested == {src \in Requested : DstInsideSelf(src)}
MovedOntoSelf == {src \in Requested : ui.op = "move" /\ AtDestination(src)}
Others ==
    SelectSeq(ui.srcs, LAMBDA src : src \in (Requested \ Nested) \ MovedOntoSelf)
OthersProcessed ==
    /\ fw.pc # "none" => fw.srcs = Others
    /\ (Others # <<>> /\ ~ui.rejected) => fw.pc # "none"

\* C3: a source directory whose destination is inside it is blocked and
\* reported, for Copy and Move alike; nothing is created or written under its
\* destination, and the other sources of the request are processed.
C3_NestedIsBlocked ==
    ui.submitted =>
        \A S \in Nested :
            /\ S \in SeqRange(ui.blocked_nested)
            /\ "blocked" \in SeqRange(ui.shown)
            /\ S \notin SeqRange(fw.srcs)
            /\ (\A T \in Requested \ {S} : Base(T) # Base(S)) =>
                  \A q \in Under(fs, DstOf(ui.dst_dir, S)) :
                      exists(fs0, q) /\ fs[q] = fs0[q]
            /\ OthersProcessed

\* A request with a blocked directory whose other source was copied.
C3_Witness ==
    /\ Nested # {}
    /\ ui.op = "copy"
    /\ EndedInSuccess
    /\ DOMAIN fs # DOMAIN fs0

\* T is, or writes to, something at or below S
Touches(T, S) == T # S /\ (Base(T) = Base(S) \/ IsPrefix(S, T))

\* C4: a Move of a source onto its own path changes nothing: the source keeps
\* its content, nothing is created for it, the pane counts it as skipped, the
\* other sources are processed and no failure comes from it.
C4_MoveOntoItselfIsNoOp ==
    ui.submitted =>
        \A S \in MovedOntoSelf :
            /\ S \in SeqRange(ui.skipped_same)
            /\ S \notin SeqRange(fw.srcs)
            /\ (\A T \in Requested : ~Touches(T, S)) => Intact(S)
            /\ Len(ui.srcs) = 1 =>
                  (fs = fs0 /\ fw.pc = "none" /\ ui.shown = <<"nothing to move">>)
            /\ OthersProcessed

\* A move of two sources, one of them onto itself, ended in success.
C4_Witness ==
    /\ MovedOntoSelf # {}
    /\ EndedInSuccess
    /\ \E S \in MovedOntoSelf : Intact(S)
    /\ DOMAIN fs # DOMAIN fs0

\* the source an iteration of the loop of run() is about to process, and
\* its destination path
LoopSrc == fw.srcs[fw.i]
LoopDst == Join(fw.dst_dir, Base(LoopSrc))

\* a step of the worker that processes a source whose destination exists
BeginsConflicting ==
    /\ fw.pc = "loop" /\ ~fw.cancel /\ ~fw'.cancel /\ fw' # fw
    /\ exists(fs, LoopSrc) /\ exists(fs, LoopDst)

\* the step removed, replaced or truncated something at or below the
\* destination (the source itself apart, when it lies below its
\* destination), or began to copy into it
DstTouched ==
    \/ \E q \in Under(fs, LoopDst) \ Under(fs, LoopSrc) :
          ~exists(fs', q) \/ fs'[q] # fs[q]
    \/ fw'.cp_dst = LoopDst /\ fw'.pc \in {"walk", "file", "chunk"}

\* C25: something that exists at the destination path of a source when the
\* source is processed is replaced, truncated or merged into only if
\* Overwrite is recorded for the source; with no resolution recorded it is
\* left as it is.
C25_OnlyOverwriteTouchesDst ==
    [][(BeginsConflicting /\ DstTouched) =>
          (LoopSrc \in DOMAIN fw.conflict_map
              /\ fw.conflict_map[LoopSrc] = "overwrite")]_vars

\* the sources of the worker for which Overwrite is recorded
Overwritten ==
    {src \in SeqRange(fw.srcs) :
        src \in DOMAIN fw.conflict_map /\ fw.conflict_map[src] = "overwrite"}

\* what was below the destination of src when the request was submitted, is
\* still there unchanged, and is not the place of anything src holds
OldContentLeft(src) ==
    LET dst == DstOf(fw.dst_dir, src)
    IN  {q \in Under(fs0, dst) \ (Under(fs0, src) \cup {dst}) :
            /\ exists(fs, q) /\ fs[q] = fs0[q]
            /\ \A m \in Under(fs0, src) : Renamed(src, dst, m) # q}

\* C26: under Overwrite a failure to remove the existing destination is
\* not reported when it happens, and the item then fails: no run reports
\* success while old content of the overwritten destination is in place
\* (stated for the runs of one source, in which nothing else touches the
\* destination).
C26_FailedRemovalFailsLoudly ==
    (EndedInSuccess /\ Len(fw.srcs) = 1) =>
        \A src \in Overwritten : OldContentLeft(src) = {}

\* a step of the fallback of a move in which the removal of the copied
\* source was tried and the source is still there
RemovalOfSourceFailed ==
    /\ fw.pc = "del" /\ ~fw.cancel /\ ~fw'.cancel /\ fw' # fw
    /\ exists(fs', fw.cp_src)

\* C27: in the copy-then-delete fallback of a move, a failure to delete the
\* source after its copy is swallowed, for a file and for a directory tree
\* alike: nothing is raised, the item counts as processed and the loop goes
\* on with the next source.
C27_FailedDeleteIsSwallowed ==
    [][RemovalOfSourceFailed =>
          (~fw'.raised /\ fw'.i = fw.i + 1 /\ fw'.pc \in {"loop", "end"}
              /\ fs' = fs)]_vars

\* a step of the worker that processes a conflicting source resolved as Skip
SkipsSource ==
    /\ BeginsConflicting
    /\ LoopSrc \in DOMAIN fw.conflict_map /\ fw.conflict_map[LoopSrc] = "skip"

\* the size of the source the progress of a skip advances by
SkippedSize ==
    IF _path_key(LoopSrc) \in DOMAIN fw.cache THEN fw.cache[_path_key(LoopSrc)]
    ELSE _size_of(fs, LoopSrc)

\* C28: processing a conflicting source resolved as Skip changes nothing on
\* disk, counts the item as processed and goes on with the next source,
\* and in byte-based mode advances the progress counter by the size of the
\* item.
C28_SkipTouchesNothing ==
    [][SkipsSource =>
          /\ fs' = fs
          /\ fw'.i = fw.i + 1 /\ fw'.pc \in {"loop", "end"} /\ ~fw'.raised
          /\ fw'.done = fw.done + (IF fw.count_progress THEN 1 ELSE SkippedSize)]_vars

\* A file of two chunks whose destination exists was skipped in a
\* byte-based copy, and the next source is being copied.
C28_Witness ==
    /\ ui.op = "copy" /\ ~fw.count_progress
    /\ Len(fw.srcs) = 2 /\ fw.i = 2 /\ fw.pc = "chunk"
    /\ fw.srcs[1] \in DOMAIN fw.conflict_map /\ fw.conflict_map[fw.srcs[1]] = "skip"
    /\ exists(fs0, DstOf(fw.dst_dir, fw.srcs[1]))
    /\ getsize(fs0, fw.srcs[1]) = MaxChunks
    /\ fw.done = MaxChunks
    /\ Intact(fw.srcs[1]) /\ Intact(DstOf(fw.dst_dir, fw.srcs[1]))

\* the candidates of a name: the name, '<base> - Copy<ext>',
\* '<base> - Copy (2)<ext>', '<base> - Copy (3)<ext>', ...
Candidate(name, i) ==
    IF i = 0 THEN name
    ELSE splitext(name)[1]
            \o (IF i = 1 THEN <<" - Copy">> ELSE <<" - Copy (", ToString(i), ")">>)
            \o splitext(name)[2]

\* the first candidate of a name that the paths of `held` do not hold
FirstFree(held, name) ==
    CHOOSE i \in 0..Cardinality(held) :
        /\ Join(UniqueDir, Candidate(name, i)) \notin held
        /\ \A j \in 0..(i - 1) : Join(UniqueDir, Candidate(name, j)) \in held

\* C11: unique_dest_path returns a path that does not exist in the directory,
\* the name itself when it is free and the first free candidate otherwise;
\* calls for the same name, each returned path created before the next call,
\* return strictly increasing suffixes.
C11_UniqueIsFirstFree ==
    \A k \in 1..Len(uq) :
        /\ uq[k].path \notin uq[k].before
        /\ uq[k].path =
              Join(UniqueDir, Candidate(uq[k].name, FirstFree(uq[k].before, uq[k].name)))
        /\ \A j \in 1..(k - 1) :
              uq[j].name = uq[k].name =>
                  FirstFree(uq[j].before, uq[j].name) < FirstFree(uq[k].before, uq[k].name)

\* Three calls for a.t in a directory that holds a.t and its second copy
\* returned the first, the third and the fourth copy.
C11_Witness ==
    /\ Len(uq) = 3
    /\ \A k \in 1..3 : uq[k].name = nTxt
    /\ uq[1].path = Join(UniqueDir, <<"a", " - Copy", ".", "t">>)
    /\ uq[2].path = Join(UniqueDir, <<"a", " - Copy (", "3", ")", ".", "t">>)
    /\ uq[3].path = Join(UniqueDir, <<"a", " - Copy (", "4", ")", ".", "t">>)

\* a step of the worker on a source of a Copy whose destination path is the
\* path of the source itself
CopiesOntoItself ==
    /\ fw.op = "copy" /\ fw.pc \in {"loop", "walk", "file", "chunk"}
    /\ ~fw.cancel /\ ~fw'.cancel /\ fw' # fw
    /\ LoopDst = LoopSrc /\ exists(fs, LoopSrc)

\* p is the first keep-both name of src that is free in f
FreshKeepBoth(f, src, p) ==
    \E i \in 1..MaxSrcs :
        /\ p = Join(Parent(src), Candidate(Base(src), i))
        /\ ~exists(f, p)
        /\ \A j \in 1..(i - 1) : exists(f, Join(Parent(src), Candidate(Base(src), j)))

\* C29: a Copy of a source onto its own path never opens the path of the
\* source, or a path below it, for writing: it writes to the first free
\* keep-both name of the directory and leaves the source as it is.
C29_CopyOntoItselfKeepsBoth ==
    [][CopiesOntoItself =>
          /\ \A q \in Under(fs, LoopSrc) : exists(fs', q) /\ fs'[q] = fs[q]
          /\ ~fw'.raised
          /\ fw.pc = "loop" => FreshKeepBoth(fs, LoopSrc, fw'.cp_dst)
          /\ fw'.pc = "chunk" =>
                (IsPrefix(fw'.cp_dst, fw'.cur[2]) /\ ~IsPrefix(LoopSrc, fw'.cur[2]))]_vars

\* The copy of d/a.t into d, after a.t of another directory was copied
\* there under its first keep-both name, has written a chunk to the second.
C29_Witness ==
    /\ fw.op = "copy" /\ fw.pc = "chunk" /\ fw.off >= 1
    /\ fw.srcs[fw.i] = Join(fw.dst_dir, nTxt)
    /\ fw.cur = <<Join(fw.dst_dir, nTxt),
                  Join(fw.dst_dir, <<"a", " - Copy (", "2", ")", ".", "t">>)>>
    /\ Intact(fw.srcs[fw.i])

----------------------------------------------------------------------------
(* Claims about sorting *)

\* C13: after a sort by any column, ascending or descending, a row that is
\* a directory stands before a row that is a file.
C13_DirectoriesFirst ==
    sortp.sort_column \in SortColumns =>
        \A i, j \in 1..2 :
            (sortp.rows[sortp.order[i]].is_dir /\ ~sortp.rows[sortp.order[j]].is_dir)
                => i < j

\* the same for the models of a browsed directory and for the name column
C13_DirectoriesFirstByName ==
    (sortp.sort_column = 0 \/ sortp.src \in {"FastDirModel", "StatOverlayProxy"})
        => C13_DirectoriesFirst

\* the rows of the source that are of the same kind and whose keys on the
\* column are equal, as pairs of distinct row numbers
TiedRows(p, col) ==
    {pr \in (1..Len(p.rows)) \X (1..Len(p.rows)) :
        /\ pr[1] # pr[2]
        /\ p.rows[pr[1]].is_dir = p.rows[pr[2]].is_dir
        /\ p.rows[pr[1]].key[col] = p.rows[pr[2]].key[col]}

\* C23: for every sort column, two entries of the same kind whose keys on
\* that column are equal are ordered by the comparator as their
\* case-insensitive names are (the key of column 0).
C23_TiesFallBackToName ==
    sortp.sort_column \in SortColumns =>
        \A pr \in TiedRows(sortp, sortp.sort_column) :
            lessThan(sortp, [row |-> pr[1], column |-> sortp.sort_column],
                            [row |-> pr[2], column |-> sortp.sort_column])
                = (sortp.rows[pr[1]].key[0] < sortp.rows[pr[2]].key[0])

----------------------------------------------------------------------------
(* Claims about repeated transfer requests *)

\* the transfer workers of the pane whose threads are running
RunningFileOps ==
    (IF FileOpRunning(fw) THEN 1 ELSE 0) + Len(SelectSeq(fw_left, FileOpRunning))

\* a step in which the pane is asked for a transfer
Attempt == ui'.attempts = ui.attempts + 1

\* C18: at most one transfer worker of the pane is running; a request made
\* while it runs is refused ("already running") and starts no worker and
\* leaves the disk as it is; a request made when no worker runs is not
\* refused for that reason, and starts a worker when it keeps a source and
\* its conflicts are answered.
C18_OneTransferAtATime ==
    [][/\ RunningFileOps <= 1
       /\ RunningFileOps' <= 1
       /\ (Attempt /\ FileOpRunning(fw)) =>
              /\ fw' = fw /\ fs' = fs /\ fw_left' = fw_left
              /\ ui'.started = ui.started
              /\ ui'.shown = Append(ui.shown, "already running")
       /\ (Attempt /\ ~FileOpRunning(fw)) =>
              /\ \A i \in Len(ui.shown) + 1 .. Len(ui'.shown) :
                    ui'.shown[i] # "already running"
              /\ fs' = fs
              /\ (ValidSrcs(fs, ui'.op, ui'.srcs, ui'.dst_dir) # <<>> /\ ~ui'.rejected)
                    => (FileOpRunning(fw') /\ ui'.started = ui.started + 1)]_vars

\* A request is refused while the first worker runs, and a later one starts
\* the second worker.
C18_Witness ==
    /\ ui.attempts = 3
    /\ ui.started = 2
    /\ ui.shown # <<>> /\ ui.shown[1] = "already running"
    /\ FileOpRunning(fw)

----------------------------------------------------------------------------
(* Claims about replaced searches *)

\* C17: the search result model holds only results of the worker of the
\* current search, the one started last.
C17_OnlyCurrentResults ==
    \A i \in 1..Len(spane._search_model) :
        spane._search_model[i].w = Len(spane.workers)

----------------------------------------------------------------------------
(* Claims about lazy attributes *)

\* the workers of the proxy whose threads are running
RunningStatWorkers == {id \in 1..Len(statp.workers) : StatRunning(statp.workers[id])}

\* C14: at most one worker started by the pane's StatOverlayProxy is running.
C14_OneStatWorker == Cardinality(RunningStatWorkers) <= 1

NoRepeat(seq) == \A i, j \in 1..Len(seq) : i # j => seq[i] # seq[j]

\* C15: no path is twice in the queue of the proxy, and between two clears
\* of the cache no path is handed to workers more than once.
C15_NoPathTwice == NoRepeat(statp._queue) /\ NoRepeat(statp.handed)

\* the paths in the order in which they go to workers: those handed to
\* workers since the last clear, then those waiting in the queue
StatOrder(p) == p.handed \o p._queue

\* C34: as long as the cache has not been cleared, the paths are handed to
\* workers in the order of their first request (a step hands over paths from
\* the front of the queue, at most the batch limit of them, and puts new
\* paths at its end), the slot of a finished batch starts the next batch when
\* the queue is not empty, and every requested path eventually has a cache
\* entry.
C34_RequestedPathsAreResolved ==
    /\ [][statp'.clears = 0 =>
             /\ Len(StatOrder(statp)) <= Len(StatOrder(statp'))
             /\ SubSeq(StatOrder(statp'), 1, Len(StatOrder(statp))) = StatOrder(statp)
             /\ NoRepeat(StatOrder(statp'))
             /\ Len(statp.handed) <= Len(statp'.handed)
             /\ Len(statp'.handed) - Len(statp.handed) <= statp'._batch_limit
             /\ (/\ statp.events # <<>>
                 /\ statp'.events = Tail(statp.events)
                 /\ Head(statp.events).sig = "finishedCycle"
                 /\ statp._queue # <<>>) =>
                    (/\ stat_worker_running(statp')
                     /\ Len(statp'.handed) > Len(statp.handed)
                     /\ statp'.requests = statp.requests)]_vars
    /\ \A path \in StatPaths :
          (path \in statp._pending) ~>
              (path \in DOMAIN statp._cache \/ statp.clears > 0)

\* One request for two paths, no clear: the second batch was started by the
\* end of the first, and both paths have a cache entry.
C34_Witness ==
    /\ statp.clears = 0 /\ statp.requests = 1
    /\ Len(statp.handed) = 2 /\ Len(statp.workers) = 2
    /\ \A i \in 1..2 : statp.handed[i] \in DOMAIN statp._cache
    /\ statp.events = <<>>

\* C35: once the cache has been cleared it holds entries only for paths that
\* were requested, and handed to a worker, after the clear.
C35_NoResultOfOldSession ==
    statp.clears > 0 => DOMAIN statp._cache \subseteq SeqRange(statp.handed)

\* C36: when the pane, in normal mode, handles the terminal signal of a
\* transfer into the directory it shows (success, failure or cancellation),
\* the cache of its stat proxy is left empty: no entry resolved before the
\* transfer ended stays.
C36_OutcomeClearsCache ==
    [][(/\ ui'.seen = ui.seen + 1
        /\ fw.sigs[ui.seen + 1].sig \in {"finished_ok", "error"}
        /\ fw.dst_dir = StatDir
        /\ ~fstat._using_fast /\ ~spane._search_mode) =>
           statp'._cache = <<>>]_vars

\* C37: in fast mode a FastStatWorker is never started for a row that has
\* received a result, and the resolution of the visible rows eventually
\* stays idle: no FastStatWorker of the pane is running and no timer is due
\* that would start one.
C37_FastStatsBecomeIdle ==
    /\ [][fstat'.started = fstat.started + 1 =>
             \A i \in 1..Len(fstat'.w.rows) :
                 fast_model.rows[fstat'.w.rows[i]].size = None]_vars
    /\ <>[](/\ ~FastStatRunning(fstat.w)
            /\ \A i \in 1..Len(fstat.events) : fstat.events[i].sig # "timeout")

SizeRoles == {"DisplayRole", "EditRole", "SIZE_BYTES_ROLE"}

\* C12: for an entry that is a directory both models report the size 0
\* (EditRole, SIZE_BYTES_ROLE) and the empty text (DisplayRole), whatever
\* the resolvers have stored in the row or in the cache.
C12_DirectorySizeIsZero ==
    /\ \A row \in 1..Len(fast_model.rows), role \in SizeRoles :
          fast_model.rows[row].is_dir =>
              fast_data(fast_model, row, role) = (IF role = "DisplayRole" THEN "" ELSE 0)
    /\ \A path \in StatPaths, role \in SizeRoles :
          isdir(fs, path) =>
              proxy_data(statp, fs, path, role) = (IF role = "DisplayRole" THEN "" ELSE 0)

\* C24: every size stored in a row of the FastDirModel is the size of the
\* row's own path: a result of a FastStatWorker of a previous listing is
\* never applied to a row of the new listing.
C24_StatsAreOfOwnPath ==
    \A row \in 1..Len(fast_model.rows) :
        LET r == fast_model.rows[row]
        IN  r.size # None =>
                r.size = (IF isdir(fs, r.path) THEN 0 ELSE getsize(fs, r.path))

\* A row that is a directory holds a size above 0, and the cache holds a
\* size above 0 for a path that is a directory.
C12_Witness ==
    /\ \E row \in 1..Len(fast_model.rows) :
          fast_model.rows[row].is_dir /\ fast_model.rows[row].size > 0
    /\ \E path \in StatPaths :
          isdir(fs, path) /\ path \in DOMAIN statp._cache /\ statp._cache[path] > 0

====
